---- MODULE Spec2Model ----
(***************************************************************************)
(* A model of backend/data/generator.py (SyntheticDataGenerator), of the  *)
(* parts of backend/data/assumptions.py it reads, of the loading of its   *)
(* collections into the tables of backend/data/database.py, and of the    *)
(* parts of backend/api that start the application, cache responses and   *)
(* serve the prioritized actions.                                          *)
(*                                                                         *)
(* Dates are day numbers counted from DATA_START_DATE (2023-01-01 = 0,     *)
(* 2024-12-31 = 730).  Money stored in a record is in cents (the code      *)
(* stores round(x, 2)); the unrounded float the MRR walk carries is in     *)
(* thousandths of a cent.  A Python None is the empty tuple and a present  *)
(* value v is <<v>>.  Every random draw of the code is a choice from a     *)
(* named set of sample outcomes.                                           *)
(***************************************************************************)
EXTENDS Integers, Sequences, FiniteSets, TLC

VARIABLES
    pc,                       \* the stage generate_all is executing
    i,                        \* index of the element the stage's for loop is at
    sales_reps,
    leads,
    opportunities,
    stage_transitions,
    customers,
    usage_events,
    marketing_spend,
    mrr_movements,
    nps_surveys,
    expansion_opportunities,
    walk,                     \* locals of the opportunity walk of lead i
    cur,                      \* locals of the inner while loop of customer i
    assumptions,              \* self.assumptions
    store,                    \* the tables of the database
    first_run,                \* the collections of an earlier run of the script
    saves,                    \* the calls of generate_and_save that have ended
    app,                      \* the lifespan of the application: where it is,
                              \* and what it found and decided when it started
    cache,                    \* _cache.cache, the oldest entry first
    now,                      \* time.time()
    recency,                  \* the keys of the cache, the least recently used first
    last_call,                \* the last call of the cache or of a cached function
    queried,                  \* what the queries of the action matrix return
    response                  \* the last response of GET /api/actions

\* The variables of the API process
api == <<app, cache, now, recency, last_call, queried, response>>

vars == <<pc, i, sales_reps, leads, opportunities, stage_transitions, customers,
          usage_events, marketing_spend, mrr_movements, nps_surveys,
          expansion_opportunities, walk, cur, assumptions, store, first_run,
          saves, api>>

\* What no stage of generate_all assigns
outside == <<assumptions, store, first_run, saves, api>>

-----------------------------------------------------------------------------
(* Optional values, sequences *)

None == <<>>

Some(v) == <<v>>

Range(s) == {s[n] : n \in DOMAIN s}

Last(s) == s[Len(s)]

Max2(a, b) == IF a >= b THEN a ELSE b

Min2(a, b) == IF a <= b THEN a ELSE b

\* dict.get(key, default)
Get(dict, key, default) == IF key \in DOMAIN dict THEN dict[key] ELSE default

-----------------------------------------------------------------------------
(* assumptions.py *)

DATA_START_DATE == 0

DATA_END_DATE == 730

num_reps == 12

\* LeadGenAssumptions.company_size_distribution, in percent, and
\* SalesRepAssumptions.num_reps
DEFAULT_ASSUMPTIONS ==
    [company_size_distribution |->
        ("SMB" :> 50) @@ ("Mid-Market" :> 35) @@ ("Enterprise" :> 15),
     num_reps |-> num_reps]

\* SalesRepAssumptions.min_performance and max_performance, in thousandths
min_performance == 600

max_performance == 1400

\* ConversionAssumptions.base_stage_conversion, in percent
base_stage_conversion ==
    [lead_to_mql |-> 40, mql_to_sql |-> 50, sql_to_opportunity |-> 60,
     opportunity_to_negotiation |-> 50, negotiation_to_closed |-> 65]

\* ConversionAssumptions.segment_multipliers, in percent
segment_multipliers ==
    ("SMB" :>
        [lead_to_mql |-> 115, mql_to_sql |-> 110, sql_to_opportunity |-> 105,
         opportunity_to_negotiation |-> 90, negotiation_to_closed |-> 85])
    @@ ("Mid-Market" :>
        [lead_to_mql |-> 100, mql_to_sql |-> 100, sql_to_opportunity |-> 100,
         opportunity_to_negotiation |-> 100, negotiation_to_closed |-> 100])
    @@ ("Enterprise" :>
        [lead_to_mql |-> 80, mql_to_sql |-> 85, sql_to_opportunity |-> 90,
         opportunity_to_negotiation |-> 115, negotiation_to_closed |-> 120])

\* ConversionAssumptions.channel_quality, in percent
channel_quality ==
    ("Organic Search" :> 110) @@ ("Paid Search" :> 95)
    @@ ("Content Marketing" :> 105) @@ ("Referral" :> 125)
    @@ ("Events" :> 100) @@ ("Outbound" :> 80) @@ ("Partner" :> 115)

rep_segment_focus ==
    <<"SMB", "SMB", "SMB", "SMB",
      "Mid-Market", "Mid-Market", "Mid-Market", "Mid-Market",
      "Enterprise", "Enterprise", "Enterprise", "Enterprise">>

\* The keys of ConversionAssumptions.loss_reasons and, per key, the reasons
\* np.random.choice can return.
loss_reasons ==
    [mql |-> {"No Response", "Not Qualified", "Bad Timing", "Competitor", "Other"},
     sql |-> {"Budget", "No Authority", "Bad Timing", "Competitor", "Other"},
     opportunity |-> {"Budget", "Competitor", "No Decision", "Requirements Not Met", "Other"},
     negotiation |-> {"Price", "Competitor", "Contract Terms", "Internal Politics", "Other"}]

-----------------------------------------------------------------------------
(* The sample outcomes of the random draws *)

\* How many days before DATA_END_DATE the sampled late leads begin.
LateWindow == 6

\* A lead early enough for its customer to see monthly ticks, a survey and
\* an expansion opportunity that is resolved before the horizon.
MidLeadDate == 575

LeadDates == {MidLeadDate} \cup ((DATA_END_DATE - LateWindow) .. DATA_END_DATE)

\* round(np.random.triangular(6000, 12000, 24000), 2) in cents: one value
\* that twelve divides and one that it does not.
AcvDraws == {600012, 1000000}

\* np.random.choice over the channels
ChannelDraws == {"Referral"}

\* random.choice(seq) is seq[k] for a k below len(seq): the first
RepChoiceDraws == {0}

LeadDraws ==
    {l \in [created_date : LeadDates, company_size : {"SMB"}, estimated_acv : AcvDraws,
            channel : ChannelDraws, rep_choice : RepChoiceDraws] :
        l.created_date = MidLeadDate => l.estimated_acv = 600012}

\* Leads that can both be won before the horizon, for runs with two leads.
PairDraws ==
    {l \in LeadDraws : l.created_date = DATA_END_DATE - 5 /\ l.estimated_acv = 600012}

\* _generate_leads appends leads day by day, so a batch is in date order.
LeadBatches ==
    {<<l>> : l \in LeadDraws}
    \cup {<<l, m>> : l \in PairDraws, m \in PairDraws}

\* int(np.random.exponential(...)): 0 days, or more days than the data spans.
StageDayDraws == {0, 800}

\* random.randint(1, 14)
LossDayDraws == {1, 14}

\* np.random.choice over the reasons of a stage: the two every stage lists
LossReasonDraws == {"Competitor", "Other"}

\* random.randint(1, 28)
ChurnOffsetDraws == {1, 28}

\* random.randint(30, 365) for each of the reps
RepStartDraws == {[n \in 1 .. num_reps |-> IF n = 1 THEN 30 ELSE IF n = 2 THEN 365 ELSE 30 * n]}

\* round(np.random.normal(1.0, 0.20), 3) in thousandths for each of the
\* reps: one draw above the bounds, one below, the others within
RepPerformanceDraws ==
    {[n \in 1 .. num_reps |-> IF n = 1 THEN 1750 ELSE IF n = 2 THEN 250 ELSE 900 + 25 * n]}

\* uuid.uuid4().hex[:8]: nothing keeps two draws apart, so a draw either
\* repeats an identifier already issued (used = 1 .. m) or is a new one.
Uuid4(used) == used \cup {Cardinality(used) + 1}

\* n draws in a row, after the identifiers of used
RECURSIVE Uuid4Seqs(_, _)
Uuid4Seqs(used, n) ==
    IF n = 0 THEN {<<>>}
    ELSE UNION {{Append(s, u) : u \in Uuid4(used \cup Range(s))} :
                   s \in Uuid4Seqs(used, n - 1)}

\* The identifiers an earlier run of the script gave the rows of a collection
\* (uuid4 reads the system's entropy: no seed ties a run's draws to another's)
IssuedBefore(collection, field) ==
    IF first_run = None
    THEN {}
    ELSE {row[field] : row \in Range(first_run[1][collection])}

-----------------------------------------------------------------------------
(* generate_all *)

StageOrderOfRun ==
    <<"reps", "leads", "opps", "customers", "usage", "marketing", "mrr",
      "nps", "expansion", "health", "done">>

\* The tables in the order save_to_database loads them
TableOrder ==
    <<"leads", "sales_reps", "opportunities", "stage_transitions", "customers",
      "usage_events", "marketing_spend", "mrr_movements", "nps_surveys",
      "expansion_opportunities">>

\* init_database: every table dropped and created again
EmptyStore == [table \in Range(TableOrder) |-> <<>>]

NoWalk ==
    [state |-> "idle", opp_id |-> 0, trial |-> 0, current_stage |-> "Lead",
     current_date |-> 0, transitions |-> <<>>, is_won |-> None,
     loss_reason |-> None, close_date |-> None,
     stage_key |-> None, final_conv |-> None]

\* No call of the cache yet
NoCall == [op |-> "none"]

\* The API process is not running: the generator is run as a script
ApiDown ==
    /\ app = [phase |-> "down"]
    /\ cache = <<>>
    /\ now = 0
    /\ recency = <<>>
    /\ last_call = NoCall
    /\ queried = None
    /\ response = None

Init ==
    /\ pc = "reps"
    /\ i = 1
    /\ sales_reps = <<>>
    /\ leads = <<>>
    /\ opportunities = <<>>
    /\ stage_transitions = <<>>
    /\ customers = <<>>
    /\ usage_events = <<>>
    /\ marketing_spend = <<>>
    /\ mrr_movements = <<>>
    /\ nps_surveys = <<>>
    /\ expansion_opportunities = <<>>
    /\ walk = NoWalk
    /\ cur = None
    /\ assumptions = DEFAULT_ASSUMPTIONS
    /\ store = EmptyStore
    /\ first_run = None
    /\ saves = 0
    /\ ApiDown

-----------------------------------------------------------------------------
(* 1/10 _generate_sales_reps *)

\* perf = max(a.min_performance, min(a.max_performance, perf))
ClipPerformance(perf) == Max2(min_performance, Min2(max_performance, perf))

SalesRep(n, offset, perf) ==
    [rep_id |-> n,
     start_date |-> DATA_START_DATE - offset,
     segment_focus |-> rep_segment_focus[n],
     performance_score |-> ClipPerformance(perf),
     is_active |-> TRUE]

GenerateSalesReps ==
    /\ pc = "reps"
    /\ \E offsets \in RepStartDraws, perfs \in RepPerformanceDraws :
          sales_reps' = [n \in 1 .. assumptions.num_reps |->
                            SalesRep(n, offsets[n], perfs[n])]
    /\ pc' = "leads"
    /\ UNCHANGED <<i, leads, opportunities, stage_transitions, customers,
                   usage_events, marketing_spend, mrr_movements, nps_surveys,
                   expansion_opportunities, walk, cur>>
    /\ UNCHANGED outside

-----------------------------------------------------------------------------
(* 2/10 _generate_leads, _create_lead *)

\* matching_reps = [r for r in self.sales_reps if r['segment_focus'] == company_size]
MatchingReps(company_size) ==
    SelectSeq(sales_reps, LAMBDA r : r.segment_focus = company_size)

\* The fallback left out: the whole pool, whether or not a rep matches
RepCandidatesOfWholePool(company_size) == sales_reps

\* random.choice(matching_reps) if matching_reps else random.choice(self.sales_reps)
RepCandidates(company_size) ==
    IF MatchingReps(company_size) # <<>>
    THEN MatchingReps(company_size)
    ELSE sales_reps

CreateLead(draw, id) ==
    [lead_id |-> id,
     created_date |-> draw.created_date,
     channel |-> draw.channel,
     company_size |-> draw.company_size,
     estimated_acv |-> draw.estimated_acv,
     assigned_rep_id |->
         RepCandidates(draw.company_size)[draw.rep_choice + 1].rep_id]

\* np.random.choice(keys, p=values) accepts p when it sums to 1
RECURSIVE SumOver(_, _)
SumOver(dist, keys) ==
    IF keys = {} THEN 0
    ELSE LET k == CHOOSE x \in keys : TRUE
         IN  dist[k] + SumOver(dist, keys \ {k})

SumsToOne(dist) == SumOver(dist, DOMAIN dist) = 100

GenerateLeadsFrom(batches) ==
    /\ pc = "leads"
    /\ SumsToOne(assumptions.company_size_distribution)
    /\ \E batch \in batches :
          /\ \A n \in DOMAIN batch :
                /\ batch[n].company_size \in DOMAIN assumptions.company_size_distribution
                /\ assumptions.company_size_distribution[batch[n].company_size] > 0
                /\ batch[n].rep_choice < Len(RepCandidates(batch[n].company_size))
          /\ \E ids \in Uuid4Seqs(IssuedBefore("leads", "lead_id"), Len(batch)) :
             leads' = [n \in 1 .. Len(batch) |-> CreateLead(batch[n], ids[n])]
    /\ pc' = "opps"
    /\ i' = 1
    /\ UNCHANGED <<sales_reps, opportunities, stage_transitions, customers,
                   usage_events, marketing_spend, mrr_movements, nps_surveys,
                   expansion_opportunities, walk, cur>>
    /\ UNCHANGED outside

GenerateLeads == GenerateLeadsFrom(LeadBatches)

-----------------------------------------------------------------------------
(* 3/10 _generate_opportunities *)

stages == <<"Lead", "MQL", "SQL", "Opportunity", "Negotiation", "Closed Won">>

\* OpportunityStage, in pipeline order
StageRank(s) ==
    CASE s = "Lead" -> 1
      [] s = "MQL" -> 2
      [] s = "SQL" -> 3
      [] s = "Opportunity" -> 4
      [] s = "Negotiation" -> 5
      [] s = "Closed Won" -> 6
      [] s = "Closed Lost" -> 7

\* current_stage.lower().replace(' ', '_')
LowerStage(s) ==
    CASE s = "Lead" -> "lead"
      [] s = "MQL" -> "mql"
      [] s = "SQL" -> "sql"
      [] s = "Opportunity" -> "opportunity"
      [] s = "Negotiation" -> "negotiation"
      [] s = "Closed Won" -> "closed_won"
      [] s = "Closed Lost" -> "closed_lost"

\* a.conversion.loss_reasons.get(key, a.conversion.loss_reasons.get('opportunity', ...))
StageLossReasons(current_stage) ==
    IF LowerStage(current_stage) \in DOMAIN loss_reasons
    THEN loss_reasons[LowerStage(current_stage)]
    ELSE loss_reasons["opportunity"]

\* days_in_stage = max(1, int(np.random.exponential(...)))
DaysInStage(raw) == Max2(1, raw)

\* if transition_date.date() > DATA_END_DATE: break
PastHorizon(transition_date) == transition_date > DATA_END_DATE

\* The guard on 'Lead' left out
MarksLostAtAnyStage(current_stage) == TRUE

\* if current_stage != 'Lead':  only mark as lost if made it past lead
MarksLost(current_stage) == current_stage # "Lead"

\* close_date = current_date + randint(1, 14), capped at DATA_END_DATE
LossCloseDate(current_date, offset) ==
    IF current_date + offset > DATA_END_DATE
    THEN DATA_END_DATE
    ELSE current_date + offset

StageTransition(opp_id, from_stage, to_stage, transition_date, days) ==
    [opportunity_id |-> opp_id,
     from_stage |-> from_stage,
     to_stage |-> to_stage,
     transition_date |-> transition_date,
     days_in_previous_stage |-> days]

\* A lost transition that leaves from 'Lead' whatever stage was reached
LostTransitionFromLead(w, close_date) ==
    StageTransition(w.opp_id, "Lead", "Closed Lost", close_date,
                    close_date - w.current_date)

\* The transition of a lost opportunity
LostTransition(w, close_date) ==
    StageTransition(w.opp_id, w.current_stage, "Closed Lost", close_date,
                    close_date - w.current_date)

Opportunity(lead, w) ==
    [opportunity_id |-> w.opp_id,
     lead_id |-> lead.lead_id,
     created_date |-> lead.created_date,
     current_stage |-> w.current_stage,
     amount |-> lead.estimated_acv,
     close_date |-> w.close_date,
     is_won |-> w.is_won,
     loss_reason |-> w.loss_reason,
     company_size |-> lead.company_size]

stage_keys ==
    <<"lead_to_mql", "mql_to_sql", "sql_to_opportunity",
      "opportunity_to_negotiation", "negotiation_to_closed">>

\* 0.95 in billionths: a percentage times a percentage times a percentage
\* times thousandths
MaxConv == 950000000

\* The product as it is, without the bound
FinalConvUnbounded(base_conv, seg_mult, channel_mult, rep_mult) ==
    base_conv * seg_mult * channel_mult * rep_mult

\* final_conv = min(0.95, base_conv * seg_mult * channel_mult * rep_mult)
FinalConv(base_conv, seg_mult, channel_mult, rep_mult) ==
    Min2(MaxConv, base_conv * seg_mult * channel_mult * rep_mult)

\* rep = next((r for r in self.sales_reps if r['rep_id'] == lead['assigned_rep_id']), None)
\* rep_mult = rep['performance_score'] if rep else 1.0
RepMult(lead) ==
    LET found == SelectSeq(sales_reps, LAMBDA r : r.rep_id = lead.assigned_rep_id)
    IN  IF found # <<>> THEN found[1].performance_score ELSE 1000

\* The probability of the trial at stage_key for a lead
TrialConv(lead, stage_key) ==
    FinalConv(base_stage_conversion[stage_key],
              Get(Get(segment_multipliers, lead.company_size, <<>>), stage_key, 100),
              Get(channel_quality, lead.channel, 100),
              RepMult(lead))

\* The locals stage_key and final_conv of the trial the walk is at
Trial(w) ==
    [w EXCEPT !.stage_key = Some(stage_keys[w.trial]),
              !.final_conv = Some(TrialConv(leads[i], stage_keys[w.trial]))]

\* for lead in self.leads: a new opp_id and the locals of the walk
StartOpportunity ==
    /\ pc = "opps"
    /\ walk.state # "running"
    /\ i <= Len(leads)
    /\ \E id \in Uuid4({o.opportunity_id : o \in Range(opportunities)}
                      \cup IssuedBefore("opportunities", "opportunity_id")) :
          walk' = [state |-> "running", opp_id |-> id, trial |-> 1,
                   current_stage |-> "Lead",
                   current_date |-> leads[i].created_date,
                   transitions |-> <<>>, is_won |-> None,
                   loss_reason |-> None, close_date |-> None,
                   stage_key |-> None, final_conv |-> None]
    /\ UNCHANGED <<pc, i, sales_reps, leads, opportunities, stage_transitions,
                   customers, usage_events, marketing_spend, mrr_movements,
                   nps_surveys, expansion_opportunities, cur>>
    /\ UNCHANGED outside

\* The walk of lead i is over: the opportunity record is appended and the
\* ledger extended.  The locals keep their values until the next lead.
EndWalk(w) ==
    /\ walk' = [w EXCEPT !.state = "finished"]
    /\ opportunities' = Append(opportunities, Opportunity(leads[i], w))
    /\ stage_transitions' = stage_transitions \o w.transitions
    /\ i' = i + 1
    /\ UNCHANGED <<pc, sales_reps, leads, customers, usage_events,
                   marketing_spend, mrr_movements, nps_surveys,
                   expansion_opportunities, cur>>

\* random.random() < final_conv and the transition is inside the data range
StageAdvance ==
    /\ pc = "opps"
    /\ walk.state = "running"
    /\ \E raw \in StageDayDraws :
          LET stage == stages[walk.trial + 1]
              days_in_stage == DaysInStage(raw)
              transition_date == walk.current_date + days_in_stage
              won == stage = "Closed Won"
              w == [Trial(walk) EXCEPT
                      !.current_stage = stage,
                      !.transitions =
                          Append(@, StageTransition(walk.opp_id, walk.current_stage,
                                                    stage, transition_date,
                                                    days_in_stage)),
                      !.current_date = transition_date,
                      !.is_won = IF won THEN Some(TRUE) ELSE @,
                      !.close_date = IF won THEN Some(transition_date) ELSE @,
                      !.trial = @ + 1]
          IN  /\ ~PastHorizon(transition_date)
              /\ IF walk.trial = Len(stages) - 1
                 THEN EndWalk(w)
                 ELSE /\ walk' = w
                      /\ UNCHANGED <<pc, i, sales_reps, leads, opportunities,
                                     stage_transitions, customers, usage_events,
                                     marketing_spend, mrr_movements, nps_surveys,
                                     expansion_opportunities, cur>>
    /\ UNCHANGED outside

\* random.random() < final_conv but the transition date is past the horizon:
\* current_stage is already assigned when the loop breaks
StageOverrun ==
    /\ pc = "opps"
    /\ walk.state = "running"
    /\ \E raw \in StageDayDraws :
          LET stage == stages[walk.trial + 1]
              transition_date == walk.current_date + DaysInStage(raw)
          IN  /\ PastHorizon(transition_date)
              /\ EndWalk([Trial(walk) EXCEPT !.current_stage = stage])
    /\ UNCHANGED outside

\* random.random() >= final_conv: lost at this stage
StageLoss ==
    /\ pc = "opps"
    /\ walk.state = "running"
    /\ IF MarksLost(walk.current_stage)
       THEN \E offset \in LossDayDraws :
               \E reason \in StageLossReasons(walk.current_stage) \cap LossReasonDraws :
                  LET close_date == LossCloseDate(walk.current_date, offset)
                  IN  EndWalk([Trial(walk) EXCEPT
                                 !.is_won = Some(FALSE),
                                 !.close_date = Some(close_date),
                                 !.loss_reason = Some(reason),
                                 !.transitions = Append(@, LostTransition(walk, close_date)),
                                 !.current_stage = "Closed Lost"])
       ELSE EndWalk(Trial(walk))
    /\ UNCHANGED outside

-----------------------------------------------------------------------------
(* Money *)

\* Thousandths of a cent in one cent: the precision the model keeps of the
\* unrounded float
MilliPerCent == 1000

\* round(x, 2) of a non-negative amount x given in thousandths of a cent, in
\* cents (Python rounds a tie to the even neighbour)
RoundCents(x) ==
    LET q == x \div MilliPerCent
        r == x % MilliPerCent
    IN  IF 2 * r > MilliPerCent \/ (2 * r = MilliPerCent /\ q % 2 = 1)
        THEN q + 1
        ELSE q

\* x * pct for a percentage given in whole percent, without leaving 32 bits
PctOf(x, pct) == (x \div 100) * pct + ((x % 100) * pct) \div 100

-----------------------------------------------------------------------------
(* 4/10 _generate_customers *)

MonthDays == 30

\* initial_mrr = opp['amount'] / 12, in thousandths of a cent
InitialMrr(amount) == (amount * MilliPerCent) \div 12

\* The values current_date takes in "while current_date < DATA_END_DATE"
ChurnTicks(start_date) ==
    {d \in start_date .. (DATA_END_DATE - 1) : (d - start_date) % MonthDays = 0}

\* churn_date without the cap
ChurnDateUncapped(current_date, offset) == current_date + offset

\* churn_date = current_date + randint(1, 28), capped at DATA_END_DATE
ChurnDate(current_date, offset) ==
    IF current_date + offset > DATA_END_DATE
    THEN DATA_END_DATE
    ELSE current_date + offset

\* 'current_mrr': round(current_mrr, 2) if status == 'Active' else 0
StoredCurrentMrr(status, current_mrr) ==
    IF status = "Active" THEN RoundCents(current_mrr) ELSE 0

Customer(opp, id, status, churn_date) ==
    [customer_id |-> id,
     opportunity_id |-> opp.opportunity_id,
     company_size |-> opp.company_size,
     start_date |-> opp.close_date[1],
     status |-> status,
     churn_date |-> churn_date,
     current_mrr |-> StoredCurrentMrr(status,
                        IF status = "Churned" THEN 0 ELSE InitialMrr(opp.amount)),
     initial_mrr |-> RoundCents(InitialMrr(opp.amount)),
     latest_nps_score |-> None,
     health_score |-> None,
     churn_probability |-> None]

\* if opp['is_won']:
IsWon(opp) == opp.is_won = Some(TRUE)

\* One pass of "for opp in self.opportunities"
GenerateCustomer ==
    /\ pc = "customers"
    /\ i <= Len(opportunities)
    /\ LET opp == opportunities[i]
       IN  IF IsWon(opp)
           THEN \E id \in Uuid4({c.customer_id : c \in Range(customers)}
                            \cup IssuedBefore("customers", "customer_id")) :
                   \/ customers' = Append(customers, Customer(opp, id, "Active", None))
                   \/ \E current_date \in ChurnTicks(opp.close_date[1]) :
                         \E offset \in ChurnOffsetDraws :
                            customers' =
                                Append(customers,
                                       Customer(opp, id, "Churned",
                                                Some(ChurnDate(current_date, offset))))
           ELSE UNCHANGED customers
    /\ i' = i + 1
    /\ UNCHANGED <<pc, sales_reps, leads, opportunities, stage_transitions,
                   usage_events, marketing_spend, mrr_movements, nps_surveys,
                   expansion_opportunities, walk, cur>>
    /\ UNCHANGED outside

-----------------------------------------------------------------------------
(* 5/10 _generate_usage_events *)

\* end = DATA_END_DATE for every customer
WindowEndIgnoresChurn(customer) == DATA_END_DATE

\* end = customer['churn_date'] if customer['churn_date'] else DATA_END_DATE
WindowEnd(customer) ==
    IF customer.churn_date # None THEN customer.churn_date[1] ELSE DATA_END_DATE

\* UsageAssumptions.decline_start_days
decline_start_days == 60

\* UsageAssumptions.decline_final_percentage, in percent
decline_final_percentage == 20

\* usage_multiplier = 1.0, in units of 1 / (100 * decline_start_days)
FullUsage == 100 * decline_start_days

\* decline_progress = days_remaining / a.decline_start_days
UsageMultiplierRising(customer, current_date) ==
    LET days_remaining == WindowEnd(customer) - current_date
    IN  IF customer.status = "Churned" /\ days_remaining < decline_start_days
        THEN FullUsage - days_remaining * (100 - decline_final_percentage)
        ELSE FullUsage

\* usage_multiplier on current_date: it starts at 1.0 and, once fewer than
\* decline_start_days remain, is assigned on every later day of the loop
UsageMultiplier(customer, current_date) ==
    LET is_churning == customer.status = "Churned"
        days_until_churn ==
            IF is_churning THEN customer.churn_date[1] - customer.start_date ELSE 0
        days_from_start == current_date - customer.start_date
        days_remaining == days_until_churn - days_from_start
    IN  IF is_churning /\ days_until_churn # 0 /\ days_remaining < decline_start_days
        THEN FullUsage
             - (decline_start_days - days_remaining) * (100 - decline_final_percentage)
        ELSE FullUsage

\* while current_date < end
UsageDaysExclusive(start, end) == Max2(0, end - start)

\* The passes of "while current_date <= end" from current_date = start on
UsageDays(start, end) == Max2(0, end - start + 1)

\* UsageAssumptions.base_usage_by_segment
base_usage_by_segment ==
    ("SMB" :>
        [logins |-> 5, api_calls |-> 100, reports_generated |-> 3,
         team_members_active |-> 3, integrations_used |-> 1])
    @@ ("Mid-Market" :>
        [logins |-> 15, api_calls |-> 500, reports_generated |-> 10,
         team_members_active |-> 10, integrations_used |-> 3])
    @@ ("Enterprise" :>
        [logins |-> 50, api_calls |-> 2000, reports_generated |-> 30,
         team_members_active |-> 30, integrations_used |-> 5])

\* The five counters of an event
UsageCounters ==
    {"logins", "api_calls", "reports_generated", "team_members_active",
     "integrations_used"}

\* np.random.uniform(lo, hi) of each counter in percent: the midpoint 1.0
UsageUniformDraws == [key \in UsageCounters |-> 100]

\* max(0, ...), and max(1, ...) for team_members_active
CounterFloor(key) == IF key = "team_members_active" THEN 1 ELSE 0

\* max(floor, int(base_usage[key] * usage_multiplier * np.random.uniform(...)))
BuiltCounter(customer, event_date, key) ==
    LET base_usage == Get(base_usage_by_segment, customer.company_size,
                          base_usage_by_segment["SMB"])
    IN  Max2(CounterFloor(key),
             (base_usage[key] * UsageMultiplier(customer, event_date)
              * UsageUniformDraws[key]) \div (FullUsage * 100))

\* date.weekday() of DATA_START_DATE, 2023-01-01: a Sunday
StartWeekday == 6

\* current_date.weekday() >= 5
IsWeekend(current_date) == (StartWeekday + current_date - DATA_START_DATE) % 7 >= 5

\* for key in ['logins', 'api_calls', 'reports_generated', 'team_members_active']
weekend_keys == {"logins", "api_calls", "reports_generated", "team_members_active"}

\* int(event[key] * 0.3)
WeekendReduction(count) == (3 * count) \div 10

\* The counter as appended: built, and reduced on a weekend if the loop of
\* the weekend reduction names it
Counter(customer, event_date, key) ==
    IF IsWeekend(event_date) /\ key \in weekend_keys
    THEN WeekendReduction(BuiltCounter(customer, event_date, key))
    ELSE BuiltCounter(customer, event_date, key)

UsageEvent(customer, event_date) ==
    [customer_id |-> customer.customer_id,
     event_date |-> event_date,
     usage_multiplier |-> UsageMultiplier(customer, event_date),
     logins |-> Counter(customer, event_date, "logins"),
     api_calls |-> Counter(customer, event_date, "api_calls"),
     reports_generated |-> Counter(customer, event_date, "reports_generated"),
     team_members_active |-> Counter(customer, event_date, "team_members_active"),
     integrations_used |-> Counter(customer, event_date, "integrations_used")]

\* One pass of "for customer in self.customers": an event for every day of
\* "while current_date <= end"
GenerateUsageEvents ==
    /\ pc = "usage"
    /\ i <= Len(customers)
    /\ LET customer == customers[i]
           start == customer.start_date
           end == WindowEnd(customer)
       IN  usage_events' =
               usage_events \o
               [n \in 1 .. UsageDays(start, end) |-> UsageEvent(customer, start + n - 1)]
    /\ i' = i + 1
    /\ UNCHANGED <<pc, sales_reps, leads, opportunities, stage_transitions,
                   customers, marketing_spend, mrr_movements, nps_surveys,
                   expansion_opportunities, walk, cur>>
    /\ UNCHANGED outside

-----------------------------------------------------------------------------
(* 6/10 _generate_marketing_spend *)

\* The first days of the months of 2023 and 2024, and 2025-01-01
FirstOfMonth ==
    <<0, 31, 59, 90, 120, 151, 181, 212, 243, 273, 304, 334,
      365, 396, 425, 456, 486, 517, 547, 578, 609, 639, 670, 700, 731>>

\* date(year, month + 1, 1), or date(year + 1, 1, 1) after December
NextMonthStart(d) ==
    LET k == CHOOSE k \in 1 .. (Len(FirstOfMonth) - 1) :
                 FirstOfMonth[k] <= d /\ d < FirstOfMonth[k + 1]
    IN  FirstOfMonth[k + 1]

\* The keys of MarketingAssumptions.monthly_spend_by_channel
SpendChannels ==
    <<"Organic Search", "Paid Search", "Content Marketing", "Referral",
      "Events", "Outbound", "Partner">>

\* month_end, capped at DATA_END_DATE
MonthEnd(current_date) ==
    LET month_end == NextMonthStart(current_date) - 1
    IN  IF month_end > DATA_END_DATE THEN DATA_END_DATE ELSE month_end

MarketingSpend(channel, period_start, period_end) ==
    [channel |-> channel,
     period_start |-> period_start,
     period_end |-> period_end]

\* The rows of "while current_date <= DATA_END_DATE" from current_date on
RECURSIVE SpendRows(_)
SpendRows(current_date) ==
    IF current_date <= DATA_END_DATE
    THEN LET month_end == MonthEnd(current_date)
         IN  [n \in 1 .. Len(SpendChannels) |->
                 MarketingSpend(SpendChannels[n], current_date, month_end)]
             \o SpendRows(NextMonthStart(current_date))
    ELSE <<>>

GenerateMarketingSpend ==
    /\ pc = "marketing"
    /\ marketing_spend' = SpendRows(DATA_START_DATE)
    /\ pc' = "mrr"
    /\ i' = 1
    /\ UNCHANGED <<sales_reps, leads, opportunities, stage_transitions, customers,
                   usage_events, mrr_movements, nps_surveys,
                   expansion_opportunities, walk, cur>>
    /\ UNCHANGED outside

-----------------------------------------------------------------------------
(* 7/10 _generate_mrr_movements *)

\* np.random.triangular(0.10, 0.25, 0.50), in percent
ExpansionPctDraws == {25}

\* np.random.triangular(0.10, 0.20, 0.40), in percent
ContractionPctDraws == {39}

MRRMovement(customer_id, movement_date, movement_type, amount, previous_mrr, new_mrr) ==
    [customer_id |-> customer_id,
     movement_date |-> movement_date,
     movement_type |-> movement_type,
     amount |-> amount,
     previous_mrr |-> previous_mrr,
     new_mrr |-> new_mrr]

\* The 'New' row; current_mrr = customer['initial_mrr'] is already rounded
NewMovement(customer) ==
    MRRMovement(customer.customer_id, customer.start_date, "New",
                customer.initial_mrr, 0, customer.initial_mrr)

\* previous_mrr read after "current_mrr += expansion_amount"
ExpansionMovementReadLate(customer, current_date, previous_mrr, expansion_amount) ==
    MRRMovement(customer.customer_id, current_date, "Expansion",
                RoundCents(expansion_amount),
                RoundCents(previous_mrr + expansion_amount),
                RoundCents(previous_mrr + expansion_amount))

ExpansionMovement(customer, current_date, previous_mrr, expansion_amount) ==
    MRRMovement(customer.customer_id, current_date, "Expansion",
                RoundCents(expansion_amount),
                RoundCents(previous_mrr),
                RoundCents(previous_mrr + expansion_amount))

ContractionMovement(customer, current_date, previous_mrr, contraction_amount) ==
    MRRMovement(customer.customer_id, current_date, "Contraction",
                0 - RoundCents(contraction_amount),
                RoundCents(previous_mrr),
                RoundCents(previous_mrr - contraction_amount))

ChurnMovement(customer, current_mrr) ==
    MRRMovement(customer.customer_id, customer.churn_date[1], "Churn",
                0 - RoundCents(current_mrr), RoundCents(current_mrr), 0)

\* The body of "for customer in self.customers" up to the while loop
MrrStart ==
    /\ pc = "mrr"
    /\ cur = None
    /\ i <= Len(customers)
    /\ mrr_movements' = Append(mrr_movements, NewMovement(customers[i]))
    /\ cur' = Some([current_date |-> customers[i].start_date + MonthDays,
                    current_mrr |-> customers[i].initial_mrr * MilliPerCent])
    /\ UNCHANGED <<pc, i, sales_reps, leads, opportunities, stage_transitions,
                   customers, usage_events, marketing_spend, nps_surveys,
                   expansion_opportunities, walk>>
    /\ UNCHANGED outside

\* while current_date <= end
InMrrLoop ==
    /\ pc = "mrr"
    /\ cur # None
    /\ cur[1].current_date <= WindowEnd(customers[i])

\* random.random() < a.monthly_expansion_probability
MrrExpansion(pcts) ==
    /\ InMrrLoop
    /\ \E pct \in pcts :
          LET expansion_amount == PctOf(cur[1].current_mrr, pct)
          IN  /\ mrr_movements' =
                     Append(mrr_movements,
                            ExpansionMovement(customers[i], cur[1].current_date,
                                              cur[1].current_mrr, expansion_amount))
              /\ cur' = Some([current_date |-> cur[1].current_date + MonthDays,
                              current_mrr |-> cur[1].current_mrr + expansion_amount])
    /\ UNCHANGED <<pc, i, sales_reps, leads, opportunities, stage_transitions,
                   customers, usage_events, marketing_spend, nps_surveys,
                   expansion_opportunities, walk>>
    /\ UNCHANGED outside

\* elif random.random() < a.monthly_contraction_probability
MrrContraction(pcts) ==
    /\ InMrrLoop
    /\ \E pct \in pcts :
          LET contraction_amount == PctOf(cur[1].current_mrr, pct)
          IN  /\ mrr_movements' =
                     Append(mrr_movements,
                            ContractionMovement(customers[i], cur[1].current_date,
                                                cur[1].current_mrr, contraction_amount))
              /\ cur' = Some([current_date |-> cur[1].current_date + MonthDays,
                              current_mrr |-> cur[1].current_mrr - contraction_amount])
    /\ UNCHANGED <<pc, i, sales_reps, leads, opportunities, stage_transitions,
                   customers, usage_events, marketing_spend, nps_surveys,
                   expansion_opportunities, walk>>
    /\ UNCHANGED outside

\* Neither draw succeeds: only current_date moves
MrrQuiet ==
    /\ InMrrLoop
    /\ cur' = Some([cur[1] EXCEPT !.current_date = @ + MonthDays])
    /\ UNCHANGED <<pc, i, sales_reps, leads, opportunities, stage_transitions,
                   customers, usage_events, marketing_spend, mrr_movements,
                   nps_surveys, expansion_opportunities, walk>>
    /\ UNCHANGED outside

\* if customer['status'] == 'Churned' and customer['churn_date']
EmitsChurn(customer) == customer.status = "Churned" /\ customer.churn_date # None

\* After the while loop: the Churn row, or the customer's current_mrr
MrrFinish ==
    /\ pc = "mrr"
    /\ cur # None
    /\ cur[1].current_date > WindowEnd(customers[i])
    /\ IF EmitsChurn(customers[i])
       THEN /\ mrr_movements' =
                   Append(mrr_movements, ChurnMovement(customers[i], cur[1].current_mrr))
            /\ UNCHANGED customers
       ELSE /\ customers' =
                   [customers EXCEPT ![i].current_mrr = RoundCents(cur[1].current_mrr)]
            /\ UNCHANGED mrr_movements
    /\ cur' = None
    /\ i' = i + 1
    /\ UNCHANGED <<pc, sales_reps, leads, opportunities, stage_transitions,
                   usage_events, marketing_spend, nps_surveys,
                   expansion_opportunities, walk>>
    /\ UNCHANGED outside

-----------------------------------------------------------------------------
(* 8/10 _generate_nps_surveys *)

survey_frequency_days == 90

\* random.choice([9, 10]), random.choice([7, 8]), random.randint(0, 6)
NpsScoreDraws == {6, 7, 9}

NPSSurvey(customer, survey_date, responded, score) ==
    [customer_id |-> customer.customer_id,
     survey_date |-> survey_date,
     score |-> score,
     responded |-> responded]

\* survey_date = start + timedelta(days=a.survey_frequency_days)
NpsStart ==
    /\ pc = "nps"
    /\ cur = None
    /\ i <= Len(customers)
    /\ cur' = Some([survey_date |-> customers[i].start_date + survey_frequency_days])
    /\ UNCHANGED <<pc, i, sales_reps, leads, opportunities, stage_transitions,
                   customers, usage_events, marketing_spend, mrr_movements,
                   nps_surveys, expansion_opportunities, walk>>
    /\ UNCHANGED outside

\* responded = random.random() < a.response_rate, and score = None unless
\* responded
SurveyAnswers(scores) ==
    {[responded |-> FALSE, score |-> None]}
    \cup {[responded |-> TRUE, score |-> Some(score)] : score \in scores}

\* The score of every survey taken, answered or not
LatestNpsScoreOfAnySurvey(latest, responded, score) == score

\* if responded and score is not None: customer['latest_nps_score'] = score
LatestNpsScore(latest, responded, score) ==
    IF responded /\ score # None THEN score ELSE latest

\* One pass of "while survey_date <= end", the customer answering with one
\* of the scores or not at all
NpsSurveyFrom(scores) ==
    /\ pc = "nps"
    /\ cur # None
    /\ cur[1].survey_date <= WindowEnd(customers[i])
    /\ \E answer \in SurveyAnswers(scores) :
          /\ nps_surveys' =
                 Append(nps_surveys,
                        NPSSurvey(customers[i], cur[1].survey_date,
                                  answer.responded, answer.score))
          /\ customers' =
                 [customers EXCEPT ![i].latest_nps_score =
                     LatestNpsScore(@, answer.responded, answer.score)]
    /\ cur' = Some([survey_date |-> cur[1].survey_date + survey_frequency_days])
    /\ UNCHANGED <<pc, i, sales_reps, leads, opportunities, stage_transitions,
                   usage_events, marketing_spend, mrr_movements,
                   expansion_opportunities, walk>>
    /\ UNCHANGED outside

NpsSurvey == NpsSurveyFrom(NpsScoreDraws)

NpsFinish ==
    /\ pc = "nps"
    /\ cur # None
    /\ cur[1].survey_date > WindowEnd(customers[i])
    /\ cur' = None
    /\ i' = i + 1
    /\ UNCHANGED <<pc, sales_reps, leads, opportunities, stage_transitions,
                   customers, usage_events, marketing_spend, mrr_movements,
                   nps_surveys, expansion_opportunities, walk>>
    /\ UNCHANGED outside

-----------------------------------------------------------------------------
(* 9/10 _generate_expansion_opportunities *)

\* check_date = start + timedelta(days=90)
FirstCheckDays == 90

\* np.random.triangular(0.10 * 12, 0.25 * 12, 0.50 * 12), in percent
EstimatedValuePctDraws == {300}

\* np.random.uniform(0.8, 1.2), in percent
ActualValuePctDraws == {80}

\* random.randint(30, 90)
CloseDelayDraws == {30, 90}

\* closed_date without the cap
ExpansionClosedDateUncapped(check_date, delay) == check_date + delay

\* closed_date = check_date + randint(30, 90), capped at DATA_END_DATE
ExpansionClosedDate(check_date, delay) ==
    IF check_date + delay > DATA_END_DATE
    THEN DATA_END_DATE
    ELSE check_date + delay

\* The statuses an opportunity identified on check_date can get, each with
\* its closed_date and, for Won, the factor of actual_value
ExpansionOutcomes(check_date) ==
    LET days_since_identified == DATA_END_DATE - check_date
    IN  IF days_since_identified < 30
        THEN {[status |-> "Identified", closed_date |-> None, factor |-> None]}
        ELSE IF days_since_identified < 60
        THEN {[status |-> "In Progress", closed_date |-> None, factor |-> None]}
        ELSE {[status |-> "Won",
               closed_date |-> Some(ExpansionClosedDate(check_date, delay)),
               factor |-> Some(f)] :
                 delay \in CloseDelayDraws, f \in ActualValuePctDraws}
             \cup
             {[status |-> "Lost",
               closed_date |-> Some(ExpansionClosedDate(check_date, delay)),
               factor |-> None] : delay \in CloseDelayDraws}

\* round(actual_value, 2) if actual_value else None
StoredActualValue(estimated_value, factor) ==
    IF factor = None \/ PctOf(estimated_value, factor[1]) = 0
    THEN None
    ELSE Some(RoundCents(PctOf(estimated_value, factor[1])))

ExpansionOpportunity(customer, check_date, estimated_value, outcome) ==
    [customer_id |-> customer.customer_id,
     identified_date |-> check_date,
     estimated_value |-> RoundCents(estimated_value),
     status |-> outcome.status,
     closed_date |-> outcome.closed_date,
     actual_value |-> StoredActualValue(estimated_value, outcome.factor)]

\* the loop passing no customer by
SkipsExpansionNever(customer) == FALSE

\* if customer['status'] != 'Active': continue
SkipsExpansion(customer) == customer.status # "Active"

ExpansionSkip ==
    /\ pc = "expansion"
    /\ cur = None
    /\ i <= Len(customers)
    /\ SkipsExpansion(customers[i])
    /\ i' = i + 1
    /\ UNCHANGED <<pc, sales_reps, leads, opportunities, stage_transitions,
                   customers, usage_events, marketing_spend, mrr_movements,
                   nps_surveys, expansion_opportunities, walk, cur>>
    /\ UNCHANGED outside

ExpansionStart ==
    /\ pc = "expansion"
    /\ cur = None
    /\ i <= Len(customers)
    /\ ~SkipsExpansion(customers[i])
    /\ cur' = Some([check_date |-> customers[i].start_date + FirstCheckDays])
    /\ UNCHANGED <<pc, i, sales_reps, leads, opportunities, stage_transitions,
                   customers, usage_events, marketing_spend, mrr_movements,
                   nps_surveys, expansion_opportunities, walk>>
    /\ UNCHANGED outside

\* The rows a run of the model creates at most
MaxExpansionRows == 3

\* One pass of "while check_date <= DATA_END_DATE", creating a row while the
\* run has fewer than max_rows
ExpansionCheckUpTo(max_rows) ==
    /\ pc = "expansion"
    /\ cur # None
    /\ cur[1].check_date <= DATA_END_DATE
    /\ \/ UNCHANGED expansion_opportunities
       \/ \E pct \in EstimatedValuePctDraws :
             /\ Len(expansion_opportunities) < max_rows
             /\ \E outcome \in ExpansionOutcomes(cur[1].check_date) :
                expansion_opportunities' =
                    Append(expansion_opportunities,
                           ExpansionOpportunity(
                               customers[i], cur[1].check_date,
                               PctOf(customers[i].current_mrr * MilliPerCent, pct),
                               outcome))
    /\ cur' = Some([check_date |-> cur[1].check_date + MonthDays])
    /\ UNCHANGED <<pc, i, sales_reps, leads, opportunities, stage_transitions,
                   customers, usage_events, marketing_spend, mrr_movements,
                   nps_surveys, walk>>
    /\ UNCHANGED outside

ExpansionCheck == ExpansionCheckUpTo(MaxExpansionRows)

ExpansionFinish ==
    /\ pc = "expansion"
    /\ cur # None
    /\ cur[1].check_date > DATA_END_DATE
    /\ cur' = None
    /\ i' = i + 1
    /\ UNCHANGED <<pc, sales_reps, leads, opportunities, stage_transitions,
                   customers, usage_events, marketing_spend, mrr_movements,
                   nps_surveys, expansion_opportunities, walk>>
    /\ UNCHANGED outside

-----------------------------------------------------------------------------
(* 10/10 _update_customer_health_scores *)

\* usage_score = (login_score + api_score) / 2 of the last 30 usage events,
\* whose counters the noise keeps between 0.5 and 1.5 times the baseline
\* (0.3 of that on weekends): a low and a high average
UsageScoreDraws == {20, 55}

\* nps_score
NpsHealthScore(nps) ==
    IF nps = None THEN 0
    ELSE IF nps[1] >= 9 THEN 100
    ELSE IF nps[1] >= 7 THEN 60
    ELSE 20

\* health_value = usage_score * 0.4 + nps_score * 0.3 + tenure_score * 0.3
\* with tenure_score = min(100, tenure_days / 3), times 30
HealthValue30(customer, usage_score) ==
    LET tenure_days == DATA_END_DATE - customer.start_date
        tenure3 == IF tenure_days > 300 THEN 300 ELSE tenure_days
    IN  12 * usage_score + 9 * NpsHealthScore(customer.latest_nps_score) + 3 * tenure3

HealthCategory(health_value30) ==
    IF health_value30 >= 2100 THEN "Green"
    ELSE IF health_value30 >= 1200 THEN "Yellow"
    ELSE "Red"

\* the ranges of Green and Red exchanged
ChurnProbabilityDrawsSwapped(health_score) ==
    CASE health_score = "Green" -> {550, 850}
      [] health_score = "Yellow" -> {250, 450}
      [] health_score = "Red" -> {50, 150}

\* round(np.random.uniform(lo, hi), 3) per category, in thousandths
ChurnProbabilityDraws(health_score) ==
    CASE health_score = "Green" -> {50, 150}
      [] health_score = "Yellow" -> {250, 450}
      [] health_score = "Red" -> {550, 850}

\* One pass of "for customer in self.customers"
UpdateCustomerHealthScore ==
    /\ pc = "health"
    /\ i <= Len(customers)
    /\ IF customers[i].status # "Active"
       THEN customers' = [customers EXCEPT ![i].health_score = None,
                                           ![i].churn_probability = None]
       ELSE IF {u \in Range(usage_events) : u.customer_id = customers[i].customer_id} = {}
       THEN customers' = [customers EXCEPT ![i].health_score = Some("Yellow"),
                                           ![i].churn_probability = Some(500)]
       ELSE \E usage_score \in UsageScoreDraws :
               LET health_score == HealthCategory(HealthValue30(customers[i], usage_score))
               IN  \E churn_prob \in ChurnProbabilityDraws(health_score) :
                      customers' = [customers EXCEPT
                                      ![i].health_score = Some(health_score),
                                      ![i].churn_probability = Some(churn_prob)]
    /\ i' = i + 1
    /\ UNCHANGED <<pc, sales_reps, leads, opportunities, stage_transitions,
                   usage_events, marketing_spend, mrr_movements, nps_surveys,
                   expansion_opportunities, walk, cur>>
    /\ UNCHANGED outside

-----------------------------------------------------------------------------
(* generate_all: one stage returns and the next is called *)

LoopLength ==
    CASE pc = "opps" -> Len(leads)
      [] pc = "customers" -> Len(opportunities)
      [] pc \in {"usage", "mrr", "nps", "expansion", "health"} -> Len(customers)
      [] OTHER -> 0

StageAfter(p) ==
    LET n == CHOOSE k \in DOMAIN StageOrderOfRun : StageOrderOfRun[k] = p
    IN  StageOrderOfRun[n + 1]

NextStage ==
    /\ pc \in {"opps", "customers", "usage", "mrr", "nps", "expansion", "health"}
    /\ i > LoopLength
    /\ walk.state # "running"
    /\ cur = None
    /\ pc' = StageAfter(pc)
    /\ i' = 1
    /\ UNCHANGED <<sales_reps, leads, opportunities, stage_transitions, customers,
                   usage_events, marketing_spend, mrr_movements, nps_surveys,
                   expansion_opportunities, walk, cur>>
    /\ UNCHANGED outside

Next ==
    \/ GenerateSalesReps
    \/ GenerateLeads
    \/ StartOpportunity
    \/ StageAdvance
    \/ StageOverrun
    \/ StageLoss
    \/ GenerateCustomer
    \/ GenerateUsageEvents
    \/ GenerateMarketingSpend
    \/ MrrStart
    \/ MrrExpansion(ExpansionPctDraws)
    \/ MrrContraction(ContractionPctDraws)
    \/ MrrQuiet
    \/ MrrFinish
    \/ NpsStart
    \/ NpsSurvey
    \/ NpsFinish
    \/ ExpansionSkip
    \/ ExpansionStart
    \/ ExpansionCheck
    \/ ExpansionFinish
    \/ UpdateCustomerHealthScore
    \/ NextStage

Spec == Init /\ [][Next]_vars

-----------------------------------------------------------------------------
(* A run whose customer is won in the first week of the data, so that its
   MRR sees all twenty-four monthly ticks, each of them a contraction.  The
   later stages never assign status, churn_date or current_mrr, and the run
   is followed up to the end of the MRR stage. *)

EarlyLeadDate == 0

EarlyBatches ==
    {<<[created_date |-> EarlyLeadDate, company_size |-> "SMB", estimated_acv |-> 600012,
        channel |-> "Referral", rep_choice |-> 0]>>}

NextLongTenure ==
    \/ GenerateSalesReps
    \/ GenerateLeadsFrom(EarlyBatches)
    \/ StartOpportunity
    \/ StageAdvance
    \/ StageOverrun
    \/ StageLoss
    \/ GenerateCustomer
    \/ GenerateUsageEvents
    \/ GenerateMarketingSpend
    \/ MrrStart
    \/ MrrContraction(ContractionPctDraws)
    \/ MrrFinish
    \/ NextStage

SpecLongTenure == Init /\ [][NextLongTenure]_vars

(* The same run followed to its end: the customer answers no survey and the
   run creates few expansion opportunities. *)

NoNpsScores == {}

LongTenureExpansionRows == 1

NextLongTenureRun ==
    \/ NextLongTenure
    \/ NpsStart
    \/ NpsSurveyFrom(NoNpsScores)
    \/ NpsFinish
    \/ ExpansionSkip
    \/ ExpansionStart
    \/ ExpansionCheckUpTo(LongTenureExpansionRows)
    \/ ExpansionFinish
    \/ UpdateCustomerHealthScore

SpecLongTenureRun == Init /\ [][NextLongTenureRun]_vars

(* The same run once more, for the health scores: the customer answers any
   of its surveys with a promoter's score or not at all, and no check finds
   an expansion opportunity. *)

PromoterScores == {9}

NoExpansionRows == 0

NextLongTenureSurveyed ==
    \/ NextLongTenure
    \/ NpsStart
    \/ NpsSurveyFrom(PromoterScores)
    \/ NpsFinish
    \/ ExpansionSkip
    \/ ExpansionStart
    \/ ExpansionCheckUpTo(NoExpansionRows)
    \/ ExpansionFinish
    \/ UpdateCustomerHealthScore

SpecLongTenureSurveyed == Init /\ [][NextLongTenureSurveyed]_vars

(* The same run followed to the end of the NPS stage, the customer
   answering any of its surveys as a detractor, as a promoter or not at
   all. *)

\* random.randint(0, 6) and random.choice([9, 10])
DetractorAndPromoterScores == {6, 9}

NextLongTenureNps ==
    \/ NextLongTenure
    \/ NpsStart
    \/ NpsSurveyFrom(DetractorAndPromoterScores)
    \/ NpsFinish

SpecLongTenureNps == Init /\ [][NextLongTenureNps]_vars

-----------------------------------------------------------------------------
(* Customers and their MRR *)

\* _generate_mrr_movements has returned: no later stage assigns status,
\* churn_date or current_mrr
MrrStageDone == pc \in {"nps", "expansion", "health", "done"}

\* C1: once the MRR stage is over every Customer has current_mrr >= 0, and
\* status = 'Churned', churn_date set and current_mrr = 0 are all true or all
\* false; in particular no Active customer ends with current_mrr = 0.
C1_MrrStatusAgreement ==
    MrrStageDone =>
        \A n \in DOMAIN customers :
            LET c == customers[n]
            IN  /\ c.current_mrr >= 0
                /\ (c.status = "Churned") <=> (c.churn_date # None)
                /\ (c.churn_date # None) <=> (c.current_mrr = 0)

\* The Active customer whose MRR was contracted at every tick down to 0.00
C1_ActiveAtZero ==
    /\ MrrStageDone
    /\ \E n \in DOMAIN customers :
          /\ customers[n].status = "Active"
          /\ customers[n].churn_date = None
          /\ customers[n].current_mrr = 0

\* The rows of mrr_movements that open a customer's ledger
NewRows == {k \in DOMAIN mrr_movements : mrr_movements[k].movement_type = "New"}

\* The n-th customer's rows: the loop writes them one customer after the
\* other, each beginning with its New row
LedgerStart(n) == CHOOSE k \in NewRows : Cardinality({j \in NewRows : j <= k}) = n

LedgerEnd(n) ==
    IF n = Cardinality(NewRows) THEN Len(mrr_movements) ELSE LedgerStart(n + 1) - 1

Ledger(n) == SubSeq(mrr_movements, LedgerStart(n), LedgerEnd(n))

\* The n-th customer's pass of the MRR loop is over
LedgerComplete(n) == MrrStageDone \/ (pc = "mrr" /\ n < i)

\* C2: every customer's MRRMovement rows are written in date order and form
\* a chain: the first is of type New with previous_mrr = 0, and each row's
\* new_mrr is the next row's previous_mrr.
C2_LedgerChain ==
    \A n \in 1 .. Cardinality(NewRows) :
        LET l == Ledger(n)
        IN  /\ l[1].movement_type = "New"
            /\ l[1].previous_mrr = 0
            /\ l[1].customer_id = customers[n].customer_id
            /\ \A k \in 1 .. (Len(l) - 1) :
                  /\ l[k + 1].customer_id = l[k].customer_id
                  /\ l[k].movement_date < l[k + 1].movement_date
                  /\ l[k].new_mrr = l[k + 1].previous_mrr

\* A ledger with an expansion, then a contraction, then the churn
C2_ExpandedContractedChurned ==
    \E n \in 1 .. Cardinality(NewRows) :
        /\ LedgerComplete(n)
        /\ Len(Ledger(n)) = 4
        /\ Ledger(n)[2].movement_type = "Expansion"
        /\ Ledger(n)[3].movement_type = "Contraction"
        /\ Ledger(n)[4].movement_type = "Churn"

\* C3: a Churned customer's ledger ends with its only Churn row, dated
\* churn_date and with new_mrr = 0, and no other row of it is dated after
\* churn_date; an Active customer's ledger has no Churn row.
C3_ChurnIsLast ==
    \A n \in DOMAIN customers :
        LedgerComplete(n) =>
            LET l == Ledger(n)
                c == customers[n]
            IN  IF c.status = "Churned"
                THEN /\ Last(l).movement_type = "Churn"
                     /\ Last(l).movement_date = c.churn_date[1]
                     /\ Last(l).new_mrr = 0
                     /\ \A k \in 1 .. (Len(l) - 1) :
                           /\ l[k].movement_type # "Churn"
                           /\ l[k].movement_date <= c.churn_date[1]
                ELSE \A k \in 1 .. Len(l) : l[k].movement_type # "Churn"

\* A customer that churned before the horizon after its MRR had moved, the
\* horizon still leaving room for more ticks
C3_ChurnedAfterMovements ==
    \E n \in DOMAIN customers :
        /\ LedgerComplete(n)
        /\ customers[n].status = "Churned"
        /\ customers[n].churn_date[1] + MonthDays < DATA_END_DATE
        /\ Len(Ledger(n)) >= 3

-----------------------------------------------------------------------------
(* Opportunities and their walk *)

CustomersOf(opp) ==
    {n \in DOMAIN customers : customers[n].opportunity_id = opp.opportunity_id}

OpportunitiesOf(customer) ==
    {k \in DOMAIN opportunities :
        opportunities[k].opportunity_id = customer.opportunity_id}

\* C4: after generate_all every won Opportunity has exactly one Customer
\* with its opportunity_id, whose initial_mrr is amount / 12, and every
\* Customer's opportunity_id names exactly one Opportunity, a won one.
C4_WonOpportunityHasOneCustomer ==
    pc = "done" =>
        /\ \A k \in DOMAIN opportunities :
              IsWon(opportunities[k]) =>
                  /\ Cardinality(CustomersOf(opportunities[k])) = 1
                  /\ \A n \in CustomersOf(opportunities[k]) :
                        12 * customers[n].initial_mrr = opportunities[k].amount
        /\ \A n \in DOMAIN customers :
              /\ Cardinality(OpportunitiesOf(customers[n])) = 1
              /\ \A k \in OpportunitiesOf(customers[n]) : IsWon(opportunities[k])

\* C5: every StageTransition goes to a strictly later stage and records at
\* least one day in the previous stage, the transition into Closed Lost
\* included.
C5_TransitionsForward ==
    \A n \in DOMAIN stage_transitions :
        LET t == stage_transitions[n]
        IN  /\ StageRank(t.to_stage) > StageRank(t.from_stage)
            /\ t.days_in_previous_stage >= 1

\* The stage a walk holds according to its ledger
LastReachedStage(transitions) ==
    IF transitions = <<>> THEN "Lead" ELSE Last(transitions).to_stage

\* C6: a successful trial whose transition date is past DATA_END_DATE ends
\* the walk, emits no StageTransition for the attempt and records the
\* Opportunity as open at the stage it held before the attempt, with is_won,
\* close_date and loss_reason null.
C6_OverrunLeavesOpportunityOpen ==
    [][StageOverrun =>
          LET o == opportunities'[Len(opportunities')]
          IN  /\ walk'.state = "finished"
              /\ stage_transitions' = stage_transitions \o walk.transitions
              /\ o.current_stage = LastReachedStage(walk.transitions)
              /\ o.is_won = None
              /\ o.close_date = None
              /\ o.loss_reason = None]_vars

\* The New rows written for a customer created from opp
NewRowsOf(opp) ==
    {k \in NewRows :
        \E n \in CustomersOf(opp) :
            mrr_movements[k].customer_id = customers[n].customer_id}

\* C7: after generate_all every Opportunity at 'Closed Won' has a Customer
\* created from it with an MRRMovement of type 'New', and current_stage is
\* 'Closed Won' exactly when is_won is True.
C7_ClosedWonHasCustomer ==
    pc = "done" =>
        \A k \in DOMAIN opportunities :
            LET o == opportunities[k]
            IN  /\ o.current_stage = "Closed Won" =>
                      CustomersOf(o) # {} /\ NewRowsOf(o) # {}
                /\ o.current_stage = "Closed Won" <=> IsWon(o)

\* C8: a failed trial ends the walk.  Past Lead the opportunity becomes
\* Closed Lost with is_won False, a loss_reason, a close_date and exactly one
\* StageTransition, from its current stage to Closed Lost; at Lead nothing is
\* emitted and the opportunity stays at Lead with is_won, close_date and
\* loss_reason null.
C8_FailedTrialEndsWalk ==
    [][StageLoss =>
          LET o == opportunities'[Len(opportunities')]
              emitted == SubSeq(stage_transitions', Len(stage_transitions) + 1,
                                Len(stage_transitions'))
              lost == {n \in DOMAIN emitted : emitted[n].to_stage = "Closed Lost"}
          IN  /\ walk'.state = "finished"
              /\ Len(opportunities') = Len(opportunities) + 1
              /\ IF walk.current_stage # "Lead"
                 THEN /\ o.current_stage = "Closed Lost"
                      /\ o.is_won = Some(FALSE)
                      /\ o.loss_reason # None
                      /\ o.close_date # None
                      /\ lost = {Len(emitted)}
                      /\ Last(emitted).from_stage = walk.current_stage
                      /\ Last(emitted).transition_date = o.close_date[1]
                      /\ SubSeq(emitted, 1, Len(emitted) - 1) = walk.transitions
                 ELSE /\ emitted = <<>>
                      /\ o.current_stage = "Lead"
                      /\ o.is_won = None
                      /\ o.close_date = None
                      /\ o.loss_reason = None]_vars

\* Of two leads, the first failed its first trial and the second was lost
\* after advancing
C8_LostAtLeadAndLater ==
    /\ walk.state = "finished"
    /\ Len(opportunities) = 2
    /\ opportunities[1].current_stage = "Lead"
    /\ opportunities[2].current_stage = "Closed Lost"
    /\ Len(walk.transitions) >= 2

-----------------------------------------------------------------------------
(* Dates *)

InDataRange(d) == DATA_START_DATE <= d /\ d <= DATA_END_DATE

\* A nullable date is in range when it is set
SetInDataRange(d) == d # None => InDataRange(d[1])

\* The dates of everything generated but the sales reps
EntityDatesInRange ==
    /\ \A n \in DOMAIN leads : InDataRange(leads[n].created_date)
    /\ \A n \in DOMAIN stage_transitions :
          InDataRange(stage_transitions[n].transition_date)
    /\ \A n \in DOMAIN opportunities : SetInDataRange(opportunities[n].close_date)
    /\ \A n \in DOMAIN customers :
          /\ InDataRange(customers[n].start_date)
          /\ SetInDataRange(customers[n].churn_date)
    /\ \A n \in DOMAIN usage_events : InDataRange(usage_events[n].event_date)
    /\ \A n \in DOMAIN marketing_spend :
          /\ InDataRange(marketing_spend[n].period_start)
          /\ InDataRange(marketing_spend[n].period_end)
    /\ \A n \in DOMAIN mrr_movements : InDataRange(mrr_movements[n].movement_date)
    /\ \A n \in DOMAIN nps_surveys : InDataRange(nps_surveys[n].survey_date)
    /\ \A n \in DOMAIN expansion_opportunities :
          /\ InDataRange(expansion_opportunities[n].identified_date)
          /\ SetInDataRange(expansion_opportunities[n].closed_date)

\* C9: after generate_all no generated entity carries a date outside
\* [DATA_START_DATE, DATA_END_DATE], SalesRep.start_date included.
C9_AllDatesInRange ==
    pc = "done" =>
        /\ \A n \in DOMAIN sales_reps : InDataRange(sales_reps[n].start_date)
        /\ EntityDatesInRange

\* C9 as amended: every date but SalesRep.start_date is inside
\* [DATA_START_DATE, DATA_END_DATE] at every point of the run, and every
\* SalesRep.start_date is 30 to 365 days before DATA_START_DATE.
C9_DatesInRangeButRepStart ==
    /\ EntityDatesInRange
    /\ \A n \in DOMAIN sales_reps :
          /\ sales_reps[n].start_date >= DATA_START_DATE - 365
          /\ sales_reps[n].start_date <= DATA_START_DATE - 30

\* A finished run with an expansion opportunity closed on the last day of
\* the data because its sampled close date lay beyond it, and an
\* opportunity lost on that day
C9_ClosedAtHorizon ==
    /\ pc = "done"
    /\ \E n \in DOMAIN expansion_opportunities :
          /\ expansion_opportunities[n].closed_date = Some(DATA_END_DATE)
          /\ expansion_opportunities[n].identified_date + 90 > DATA_END_DATE
    /\ \E n \in DOMAIN sales_reps : sales_reps[n].start_date < DATA_START_DATE

\* C10: a Customer's churn_date, when set, is not before its start_date and
\* not after DATA_END_DATE.
C10_ChurnDateInTenure ==
    \A n \in DOMAIN customers :
        customers[n].churn_date # None =>
            /\ customers[n].start_date <= customers[n].churn_date[1]
            /\ customers[n].churn_date[1] <= DATA_END_DATE

\* A customer won on the eve of the last day whose churn offset of 28 days
\* would end past the data
C10_ChurnCappedAtHorizon ==
    \E n \in DOMAIN customers :
        /\ customers[n].start_date = DATA_END_DATE - 1
        /\ customers[n].churn_date = Some(DATA_END_DATE)

-----------------------------------------------------------------------------
(* A run with one lead, created five days before DATA_END_DATE: it can be
   won on the last day, and its customer then starts on DATA_END_DATE. *)

SoleBatches ==
    {<<[created_date |-> DATA_END_DATE - 5, company_size |-> "SMB",
        estimated_acv |-> 600012, channel |-> "Referral", rep_choice |-> 0]>>}

GenerateAllOfSoleLead ==
    \/ GenerateSalesReps
    \/ GenerateLeadsFrom(SoleBatches)
    \/ StartOpportunity
    \/ StageAdvance
    \/ StageOverrun
    \/ StageLoss
    \/ GenerateCustomer
    \/ GenerateUsageEvents
    \/ GenerateMarketingSpend
    \/ MrrStart
    \/ MrrFinish
    \/ NpsStart
    \/ NpsFinish
    \/ ExpansionStart
    \/ ExpansionFinish
    \/ UpdateCustomerHealthScore
    \/ NextStage

-----------------------------------------------------------------------------
(* The script run twice: __main__ calls generate_and_save, and the module
   seeds Faker, random and numpy.random with 42 whenever it is loaded. *)

Collections ==
    [sales_reps |-> sales_reps, leads |-> leads, opportunities |-> opportunities,
     stage_transitions |-> stage_transitions, customers |-> customers,
     usage_events |-> usage_events, marketing_spend |-> marketing_spend,
     mrr_movements |-> mrr_movements, nps_surveys |-> nps_surveys,
     expansion_opportunities |-> expansion_opportunities]

\* The first run is over and the script is started again: a new generator
\* with empty collections
RunAgain ==
    /\ pc = "done"
    /\ first_run = None
    /\ first_run' = Some(Collections)
    /\ pc' = "reps"
    /\ i' = 1
    /\ sales_reps' = <<>>
    /\ leads' = <<>>
    /\ opportunities' = <<>>
    /\ stage_transitions' = <<>>
    /\ customers' = <<>>
    /\ usage_events' = <<>>
    /\ marketing_spend' = <<>>
    /\ mrr_movements' = <<>>
    /\ nps_surveys' = <<>>
    /\ expansion_opportunities' = <<>>
    /\ walk' = NoWalk
    /\ cur' = None
    /\ UNCHANGED <<assumptions, store, saves, api>>

NextTwoRuns ==
    \/ GenerateAllOfSoleLead
    \/ RunAgain

SpecTwoRuns == Init /\ [][NextTwoRuns]_vars

-----------------------------------------------------------------------------
(* An Assumption Set is built and given to a new generator *)

\* company_size_distribution as a caller may write it: the default, one
\* that sums to 1.10 and one that lacks 'Enterprise'
AssumptionDraws ==
    {DEFAULT_ASSUMPTIONS,
     [DEFAULT_ASSUMPTIONS EXCEPT !.company_size_distribution =
         ("SMB" :> 50) @@ ("Mid-Market" :> 35) @@ ("Enterprise" :> 25)],
     [DEFAULT_ASSUMPTIONS EXCEPT !.company_size_distribution =
         ("SMB" :> 65) @@ ("Mid-Market" :> 35)]}

InitNew ==
    /\ pc = "new"
    /\ i = 1
    /\ sales_reps = <<>>
    /\ leads = <<>>
    /\ opportunities = <<>>
    /\ stage_transitions = <<>>
    /\ customers = <<>>
    /\ usage_events = <<>>
    /\ marketing_spend = <<>>
    /\ mrr_movements = <<>>
    /\ nps_surveys = <<>>
    /\ expansion_opportunities = <<>>
    /\ walk = NoWalk
    /\ cur = None
    /\ assumptions = None
    /\ store = EmptyStore
    /\ first_run = None
    /\ saves = 0
    /\ ApiDown

\* AllAssumptions(lead_gen=LeadGenAssumptions(company_size_distribution=...))
\* and SyntheticDataGenerator(assumptions): plain dataclasses, no field is
\* looked at
ConstructFrom(draws) ==
    /\ pc = "new"
    /\ \E a \in draws : assumptions' = a
    /\ pc' = "reps"
    /\ UNCHANGED <<i, sales_reps, leads, opportunities, stage_transitions,
                   customers, usage_events, marketing_spend, mrr_movements,
                   nps_surveys, expansion_opportunities, walk, cur, store,
                   first_run, saves, api>>

Construct == ConstructFrom(AssumptionDraws)

\* The first _create_lead: np.random.choice raises ValueError
\* ("probabilities do not sum to 1") out of generate_all
GenerateLeadsRaises ==
    /\ pc = "leads"
    /\ ~SumsToOne(assumptions.company_size_distribution)
    /\ pc' = "raised"
    /\ UNCHANGED <<i, sales_reps, leads, opportunities, stage_transitions,
                   customers, usage_events, marketing_spend, mrr_movements,
                   nps_surveys, expansion_opportunities, walk, cur>>
    /\ UNCHANGED outside

NextConstruct ==
    \/ Construct
    \/ GenerateAllOfSoleLead
    \/ GenerateLeadsRaises

SpecConstruct == InitNew /\ [][NextConstruct]_vars

-----------------------------------------------------------------------------
(* save_to_database *)

\* The collection save_to_database loads into a table
DataOf(table) == Collections[table]

\* tables created only where missing: the rows they hold stay
CreateIfMissing(tables) ==
    [table \in Range(TableOrder) |->
        IF table \in DOMAIN tables THEN tables[table] ELSE <<>>]

\* init_database: DROP TABLE IF EXISTS for each of the ten tables, then
\* CREATE TABLE for each
DropAndCreate(tables) == [table \in Range(TableOrder) |-> <<>>]

\* init_database()
InitDatabase ==
    /\ pc = "done"
    /\ store' = DropAndCreate(store)
    /\ pc' = "save"
    /\ i' = 1
    /\ UNCHANGED <<sales_reps, leads, opportunities, stage_transitions, customers,
                   usage_events, marketing_spend, mrr_movements, nps_surveys,
                   expansion_opportunities, walk, cur, assumptions, first_run,
                   saves, api>>

\* One pass of "for table_name, data in tables": load_dataframe inserts the
\* rows in a connection of its own, an empty collection is passed by
LoadDataframe ==
    /\ pc = "save"
    /\ i <= Len(TableOrder)
    /\ LET table_name == TableOrder[i]
       IN  IF DataOf(table_name) # <<>>
           THEN store' = [store EXCEPT ![table_name] = @ \o DataOf(table_name)]
           ELSE UNCHANGED store
    /\ i' = i + 1
    /\ UNCHANGED <<pc, sales_reps, leads, opportunities, stage_transitions,
                   customers, usage_events, marketing_spend, mrr_movements,
                   nps_surveys, expansion_opportunities, walk, cur, assumptions,
                   first_run, saves, api>>

\* load_dataframe raises (to_parquet or the INSERT fails): nothing catches
\* it, the statement leaves its table as it was
LoadDataframeFails ==
    /\ pc = "save"
    /\ i <= Len(TableOrder)
    /\ DataOf(TableOrder[i]) # <<>>
    /\ pc' = "save_failed"
    /\ UNCHANGED <<i, sales_reps, leads, opportunities, stage_transitions,
                   customers, usage_events, marketing_spend, mrr_movements,
                   nps_surveys, expansion_opportunities, walk, cur>>
    /\ UNCHANGED outside

\* The loop is over and save_to_database returns
SaveReturns ==
    /\ pc = "save"
    /\ i > Len(TableOrder)
    /\ pc' = "saved"
    /\ UNCHANGED <<i, sales_reps, leads, opportunities, stage_transitions,
                   customers, usage_events, marketing_spend, mrr_movements,
                   nps_surveys, expansion_opportunities, walk, cur>>
    /\ UNCHANGED outside

NextSave ==
    \/ GenerateAllOfSoleLead
    \/ InitDatabase
    \/ LoadDataframe
    \/ LoadDataframeFails
    \/ SaveReturns

SpecSave == Init /\ [][NextSave]_vars

\* The calls of generate_and_save a history has before its last
MaxSaves == 2

\* generate_and_save called once more (POST /api/data/regenerate, or the
\* script run again) after a save that returned or failed: a new generator,
\* the database as the earlier call left it
GenerateAndSaveAgain ==
    /\ pc \in {"saved", "save_failed"}
    /\ saves < MaxSaves
    /\ saves' = saves + 1
    /\ pc' = "reps"
    /\ i' = 1
    /\ sales_reps' = <<>>
    /\ leads' = <<>>
    /\ opportunities' = <<>>
    /\ stage_transitions' = <<>>
    /\ customers' = <<>>
    /\ usage_events' = <<>>
    /\ marketing_spend' = <<>>
    /\ mrr_movements' = <<>>
    /\ nps_surveys' = <<>>
    /\ expansion_opportunities' = <<>>
    /\ walk' = NoWalk
    /\ cur' = None
    /\ UNCHANGED <<assumptions, store, first_run, api>>

NextRegenerate ==
    \/ NextSave
    \/ GenerateAndSaveAgain

SpecRegenerate == Init /\ [][NextRegenerate]_vars

-----------------------------------------------------------------------------
(* References between the collections *)

CustomerIds == {customers[n].customer_id : n \in DOMAIN customers}

\* How many Customers carry the customer_id of a row
CustomersNamed(id) == Cardinality({n \in DOMAIN customers : customers[n].customer_id = id})

\* C11: after generate_all every UsageEvent, MRRMovement, NPSSurvey and
\* ExpansionOpportunity carries the customer_id of exactly one Customer, every
\* StageTransition the opportunity_id of an Opportunity and every Opportunity
\* the lead_id of a Lead.
C11_ReferencesResolve ==
    pc = "done" =>
        /\ \A n \in DOMAIN customers : CustomersNamed(customers[n].customer_id) = 1
        /\ \A n \in DOMAIN usage_events : usage_events[n].customer_id \in CustomerIds
        /\ \A n \in DOMAIN mrr_movements : mrr_movements[n].customer_id \in CustomerIds
        /\ \A n \in DOMAIN nps_surveys : nps_surveys[n].customer_id \in CustomerIds
        /\ \A n \in DOMAIN expansion_opportunities :
              expansion_opportunities[n].customer_id \in CustomerIds
        /\ \A n \in DOMAIN stage_transitions :
              \E k \in DOMAIN opportunities :
                 opportunities[k].opportunity_id = stage_transitions[n].opportunity_id
        /\ \A n \in DOMAIN opportunities :
              \E k \in DOMAIN leads : leads[k].lead_id = opportunities[n].lead_id

-----------------------------------------------------------------------------
(* Usage events *)

\* The n-th customer's pass of the usage loop is over
UsageComplete(n) ==
    \/ pc = "usage" /\ n < i
    \/ pc \in {"marketing", "mrr", "nps", "expansion", "health", "done"}

\* The events carrying a customer's customer_id, in the order written
UsageOf(customer) ==
    SelectSeq(usage_events, LAMBDA u : u.customer_id = customer.customer_id)

\* C12: the usage stage writes for every Customer exactly one UsageEvent for
\* each day from start_date to churn_date (DATA_END_DATE if there is none)
\* and none for any other day, so every Customer has at least one.
C12_OneEventPerDay ==
    \A n \in DOMAIN customers :
        UsageComplete(n) =>
            LET c == customers[n]
                own == UsageOf(c)
                sharing == {m \in DOMAIN customers :
                               UsageComplete(m) /\ customers[m].customer_id = c.customer_id}
            IN  /\ Len(own) >= 1
                /\ IF sharing = {n}
                   THEN /\ Len(own) = WindowEnd(c) - c.start_date + 1
                        /\ \A k \in DOMAIN own : own[k].event_date = c.start_date + k - 1
                   ELSE \A d \in DATA_START_DATE .. DATA_END_DATE :
                           Cardinality({k \in DOMAIN own : own[k].event_date = d})
                           = Cardinality({m \in sharing :
                                             /\ customers[m].start_date <= d
                                             /\ d <= WindowEnd(customers[m])})

\* A Churned and never-shared customer with events on more days than one,
\* the last of them on its churn_date
C12_EventsUpToChurn ==
    \E n \in DOMAIN customers :
        /\ UsageComplete(n)
        /\ customers[n].status = "Churned"
        /\ customers[n].churn_date[1] < DATA_END_DATE
        /\ Len(UsageOf(customers[n])) > 1
        /\ Last(UsageOf(customers[n])).event_date = customers[n].churn_date[1]

\* C13: a churned customer's usage multiplier is 1.0 while more than
\* decline_start_days remain before churn_date, does not rise from a day to
\* the next over the last decline_start_days, and is decline_final_percentage
\* on churn_date; a customer that never churns has 1.0 on every day.
C13_UsageDeclinesToChurn ==
    \A n \in DOMAIN customers :
        UsageComplete(n) /\ CustomersNamed(customers[n].customer_id) = 1 =>
            LET c == customers[n]
                own == UsageOf(c)
            IN  IF c.status = "Churned"
                THEN /\ \A k \in DOMAIN own :
                           /\ c.churn_date[1] - own[k].event_date > decline_start_days
                                 => own[k].usage_multiplier = FullUsage
                           /\ own[k].event_date = c.churn_date[1]
                                 => 100 * own[k].usage_multiplier
                                    = decline_final_percentage * FullUsage
                     /\ \A k \in 1 .. (Len(own) - 1) :
                           c.churn_date[1] - own[k].event_date <= decline_start_days
                              => own[k + 1].usage_multiplier <= own[k].usage_multiplier
                ELSE \A k \in DOMAIN own : own[k].usage_multiplier = FullUsage

\* A customer that churned more than decline_start_days after its start:
\* full usage at first, less on the day before churn_date, the floor on it
C13_DeclineAfterFullUsage ==
    \E n \in DOMAIN customers :
        /\ UsageComplete(n)
        /\ customers[n].status = "Churned"
        /\ customers[n].churn_date[1] - customers[n].start_date > decline_start_days
        /\ UsageOf(customers[n])[1].usage_multiplier = FullUsage
        /\ Last(UsageOf(customers[n])).usage_multiplier < FullUsage

-----------------------------------------------------------------------------
(* Expansion opportunities *)

\* C14: no ExpansionOpportunity is created for a customer that churns: every
\* row carries the customer_id of a Customer that is Active with no
\* churn_date, and was identified FirstCheckDays or more after its start.
C14_ExpansionOnlyForActive ==
    \A n \in DOMAIN expansion_opportunities :
        \E k \in DOMAIN customers :
            /\ customers[k].customer_id = expansion_opportunities[n].customer_id
            /\ customers[k].status = "Active"
            /\ customers[k].churn_date = None
            /\ expansion_opportunities[n].identified_date
                  >= customers[k].start_date + FirstCheckDays

\* At the end of a run: a churned customer old enough for the first check
\* that has no row
C14_ChurnedPassedBy ==
    /\ pc = "done"
    /\ \E k \in DOMAIN customers :
          /\ customers[k].status = "Churned"
          /\ customers[k].start_date + FirstCheckDays <= DATA_END_DATE
          /\ \A n \in DOMAIN expansion_opportunities :
                expansion_opportunities[n].customer_id # customers[k].customer_id

\* C15: the status of an ExpansionOpportunity follows from the days between
\* its identified_date and DATA_END_DATE (Identified below 30, In Progress
\* from 30 to 59, Won or Lost from 60 on), closed_date is set exactly on Won
\* and Lost rows and actual_value exactly on Won rows.
C15_StatusByElapsedDays ==
    \A n \in DOMAIN expansion_opportunities :
        LET e == expansion_opportunities[n]
            days_since_identified == DATA_END_DATE - e.identified_date
        IN  /\ e.status \in (IF days_since_identified < 30 THEN {"Identified"}
                             ELSE IF days_since_identified < 60 THEN {"In Progress"}
                             ELSE {"Won", "Lost"})
            /\ e.closed_date # None <=> e.status \in {"Won", "Lost"}
            /\ e.actual_value # None <=> e.status = "Won"

\* A Won opportunity of an Active customer whose current_mrr is 0
C15_WonAtZeroMrr ==
    \E n \in DOMAIN expansion_opportunities :
        /\ expansion_opportunities[n].status = "Won"
        /\ expansion_opportunities[n].estimated_value = 0
        /\ \E k \in DOMAIN customers :
              /\ customers[k].customer_id = expansion_opportunities[n].customer_id
              /\ customers[k].status = "Active"
              /\ customers[k].current_mrr = 0

\* C16: a Won or Lost ExpansionOpportunity was Identified for 30 days and
\* In Progress for 30 more: its closed_date is 60 days or more after its
\* identified_date.
C16_ClosedAfterSixtyDays ==
    \A n \in DOMAIN expansion_opportunities :
        expansion_opportunities[n].status \in {"Won", "Lost"} =>
            expansion_opportunities[n].closed_date[1]
               >= expansion_opportunities[n].identified_date + 60

-----------------------------------------------------------------------------
(* Health scores *)

\* The n-th customer's pass of the health loop is over
HealthComplete(n) ==
    \/ pc = "health" /\ n < i
    \/ pc = "done"

\* The bounds of a category's churn_probability, in thousandths
ChurnProbabilityRange(health_score) ==
    CASE health_score = "Green" -> 50 .. 150
      [] health_score = "Yellow" -> 250 .. 450
      [] health_score = "Red" -> 550 .. 850

\* C17: once the health loop has passed it, a Churned customer has neither
\* health_score nor churn_probability, and an Active customer has a
\* health_score of Green, Yellow or Red with a churn_probability within
\* [0.05, 0.15], [0.25, 0.45] and [0.55, 0.85] respectively.
C17_HealthByStatus ==
    \A n \in DOMAIN customers :
        HealthComplete(n) =>
            IF customers[n].status = "Churned"
            THEN /\ customers[n].health_score = None
                 /\ customers[n].churn_probability = None
            ELSE /\ customers[n].status = "Active"
                 /\ customers[n].health_score # None
                 /\ customers[n].health_score[1] \in {"Green", "Yellow", "Red"}
                 /\ customers[n].churn_probability # None
                 /\ customers[n].churn_probability[1]
                       \in ChurnProbabilityRange(customers[n].health_score[1])

\* A finished run with a Green customer at the low end of its range
C17_GreenAtFivePercent ==
    /\ pc = "done"
    /\ \E n \in DOMAIN customers :
          /\ customers[n].status = "Active"
          /\ customers[n].health_score = Some("Green")
          /\ customers[n].churn_probability = Some(50)

-----------------------------------------------------------------------------
(* Two runs, construction, persistence *)

\* The fields that hold a uuid4 identifier
IdFields == {"lead_id", "opportunity_id", "customer_id"}

WithoutIds(rows) ==
    [n \in DOMAIN rows |-> [f \in (DOMAIN rows[n]) \ IdFields |-> rows[n][f]]]

\* The second run made the draws of the first: every collection has the
\* rows of the first run in every field that is not an identifier
SameSeededDraws ==
    /\ first_run # None
    /\ \A c \in DOMAIN Collections :
          WithoutIds(Collections[c]) = WithoutIds(first_run[1][c])

\* C18: two full runs with the same seed and Assumption Set end with the
\* same collections, field for field, identifier fields included.
C18_RunsIdentical ==
    pc = "done" /\ SameSeededDraws => Collections = first_run[1]

\* A second run that ended with the first run's rows and a customer
C18_SecondRunWithCustomer ==
    /\ pc = "done"
    /\ SameSeededDraws
    /\ customers # <<>>

Segments == {"SMB", "Mid-Market", "Enterprise"}

\* A distribution with every required key that sums to 1.0
ValidAssumptions(a) ==
    /\ DOMAIN a.company_size_distribution = Segments
    /\ SumsToOne(a.company_size_distribution)

\* C19: an Assumption Set with a distribution that does not sum to 1.0 or
\* lacks a required key fails at construction: a generator never holds one,
\* so no stage runs with it.
C19_InvalidAssumptionsRejected ==
    pc # "new" => ValidAssumptions(assumptions)

\* generate_all ran to its end with a distribution that lacks a key
C19_RanWithoutEnterprise ==
    /\ pc = "done"
    /\ ~ValidAssumptions(assumptions)
    /\ leads # <<>>

\* C20: when a load fails during save_to_database the failure is raised, no
\* later table is loaded and no table holds new rows: the store has the new
\* rows of all the tables or of none.
C20_FailedSaveLoadsNothing ==
    pc = "save_failed" =>
        /\ \A k \in i .. Len(TableOrder) : store[TableOrder[k]] = <<>>
        /\ \A table \in DOMAIN store : store[table] = <<>>

\* A save that failed at the third table, with the first two loaded
C20_FailedAtOpportunities ==
    /\ pc = "save_failed"
    /\ TableOrder[i] = "opportunities"
    /\ store["leads"] = leads
    /\ store["sales_reps"] = sales_reps

\* C21: whatever saves came before, one that failed part-way included, a
\* generate_and_save that returns leaves in each of the ten tables exactly
\* the rows of its generator's collection.
C21_SavedStoreIsLatestRun ==
    pc = "saved" => \A table \in DOMAIN store : store[table] = DataOf(table)

\* A save that returned for a run without a customer, the third call of
\* generate_and_save of its history
C21_ThirdSaveReturned ==
    /\ pc = "saved"
    /\ saves = 2
    /\ customers = <<>>
    /\ store["customers"] = <<>>
    /\ store["leads"] = leads

-----------------------------------------------------------------------------
(* The probability of a stage trial *)

\* The lead whose walk the locals belong to
WalkLead == IF walk.state = "finished" THEN leads[i - 1] ELSE leads[i]

\* C22: the probability a stage trial is decided with is the smaller of 0.95
\* and base rate x segment multiplier x channel quality x the assigned rep's
\* performance score, so it never exceeds 0.95; for a Referral lead of an
\* SMB at Lead -> MQL it is 0.40 x 1.15 x 1.25 x the rep's performance,
\* clipped at 0.95.
C22_ConversionProbabilityClipped ==
    (pc = "opps" /\ walk.final_conv # None) =>
        LET lead == WalkLead
            key == walk.stage_key[1]
            rep == CHOOSE r \in Range(sales_reps) : r.rep_id = lead.assigned_rep_id
            product == base_stage_conversion[key]
                       * segment_multipliers[lead.company_size][key]
                       * channel_quality[lead.channel]
                       * rep.performance_score
        IN  /\ walk.final_conv[1] = (IF product > MaxConv THEN MaxConv ELSE product)
            /\ walk.final_conv[1] <= MaxConv
            /\ (lead.channel = "Referral" /\ lead.company_size = "SMB"
                /\ key = "lead_to_mql") =>
                  walk.final_conv[1] =
                      (IF 40 * 115 * 125 * rep.performance_score > MaxConv
                       THEN MaxConv
                       ELSE 40 * 115 * 125 * rep.performance_score)

\* A Referral lead of an SMB with the best rep past Lead -> MQL: at
\* MQL -> SQL the product is 0.9625 and the trial is decided with 0.95
C22_ClippedAtMqlToSql ==
    /\ pc = "opps"
    /\ walk.state = "running"
    /\ walk.stage_key = Some("mql_to_sql")
    /\ walk.final_conv = Some(MaxConv)
    /\ leads[i].channel = "Referral"
    /\ leads[i].company_size = "SMB"
    /\ RepMult(leads[i]) = max_performance
    /\ 50 * 110 * 125 * max_performance > MaxConv

-----------------------------------------------------------------------------
(* Rep pools of other sizes: SalesRepAssumptions(num_reps=...).  The run
   is followed up to the end of the opportunity stage, where the assigned
   rep is last looked up. *)

\* No rep at all, the four SMB reps only, and the default twelve
RepPoolSizes == {0, 4, num_reps}

RepPoolDraws == {[DEFAULT_ASSUMPTIONS EXCEPT !.num_reps = n] : n \in RepPoolSizes}

\* One lead of each company size, with the ACV the median of its segment,
\* given the first or the fourth of the reps it can be given
RepPoolBatches ==
    {<<[created_date |-> DATA_END_DATE - 5, company_size |-> size,
        estimated_acv |-> (CASE size = "SMB" -> 1200000
                             [] size = "Mid-Market" -> 4800000
                             [] size = "Enterprise" -> 18000000),
        channel |-> "Referral", rep_choice |-> k]>> :
        size \in DOMAIN DEFAULT_ASSUMPTIONS.company_size_distribution, k \in {0, 3}}

\* The first _create_lead with an empty pool: matching_reps is empty and
\* random.choice(self.sales_reps) raises IndexError out of generate_all
CreateLeadRaises ==
    /\ pc = "leads"
    /\ SumsToOne(assumptions.company_size_distribution)
    /\ sales_reps = <<>>
    /\ pc' = "raised"
    /\ UNCHANGED <<i, sales_reps, leads, opportunities, stage_transitions,
                   customers, usage_events, marketing_spend, mrr_movements,
                   nps_surveys, expansion_opportunities, walk, cur>>
    /\ UNCHANGED outside

NextRepPool ==
    \/ ConstructFrom(RepPoolDraws)
    \/ GenerateSalesReps
    \/ GenerateLeadsFrom(RepPoolBatches)
    \/ CreateLeadRaises
    \/ StartOpportunity
    \/ StageAdvance
    \/ StageOverrun
    \/ StageLoss

SpecRepPool == InitNew /\ [][NextRepPool]_vars

\* Every lead has a rep of the pool, and one whose segment_focus is the
\* lead's company_size when the pool has such a rep
LeadsHaveRepOfPool ==
    \A n \in DOMAIN leads :
        /\ \E r \in Range(sales_reps) : r.rep_id = leads[n].assigned_rep_id
        /\ (\E r \in Range(sales_reps) : r.segment_focus = leads[n].company_size) =>
              \E r \in Range(sales_reps) :
                 /\ r.rep_id = leads[n].assigned_rep_id
                 /\ r.segment_focus = leads[n].company_size

-----------------------------------------------------------------------------
(* The latest NPS score *)

\* The n-th customer's pass of the survey loop is over
NpsComplete(n) ==
    \/ pc = "nps" /\ n < i
    \/ pc \in {"expansion", "health", "done"}

\* The surveys carrying a customer's customer_id, in the order written
SurveysOf(customer) ==
    SelectSeq(nps_surveys, LAMBDA s : s.customer_id = customer.customer_id)

\* C24: once a customer's surveys are written, its latest_nps_score is the
\* score of the latest by date of its answered surveys, an integer from 0
\* to 10, and null when it answered none; a survey that was not answered has
\* a null score.  (Of customers that share one customer_id each has the
\* score of an answered survey carrying it, or null.)
C24_LatestScoreOfLastAnswered ==
    /\ \A k \in DOMAIN nps_surveys :
          IF nps_surveys[k].responded
          THEN nps_surveys[k].score # None /\ nps_surveys[k].score[1] \in 0 .. 10
          ELSE nps_surveys[k].score = None
    /\ \A n \in DOMAIN customers :
          NpsComplete(n) =>
             LET c == customers[n]
                 answered == {s \in Range(SurveysOf(c)) : s.responded}
                 last == CHOOSE s \in answered :
                            \A t \in answered : t.survey_date <= s.survey_date
                 sharing == {m \in DOMAIN customers :
                                customers[m].customer_id = c.customer_id}
             IN  IF sharing = {n}
                 THEN c.latest_nps_score =
                         (IF answered = {} THEN None ELSE last.score)
                 ELSE \/ c.latest_nps_score = None
                      \/ \E s \in answered : c.latest_nps_score = s.score

\* A customer that answered a survey with 9, a later one with 6 and the one
\* after that not at all: its latest score is the 6
C24_UnansweredAfterDetractor ==
    /\ pc = "expansion"
    /\ Len(customers) = 1
    /\ \E a, b, c \in DOMAIN nps_surveys :
          /\ a < b /\ b < c
          /\ nps_surveys[a].score = Some(9)
          /\ nps_surveys[b].score = Some(6)
          /\ \A k \in DOMAIN nps_surveys : k > b => ~nps_surveys[k].responded
    /\ customers[1].latest_nps_score = Some(6)

-----------------------------------------------------------------------------
(* The chain of an opportunity's transitions *)

\* OpportunityStage: the stages no transition leaves
TerminalStages == {"Closed Won", "Closed Lost"}

\* The rows carrying an opportunity_id, in the order written
TransitionsOf(opp_id) ==
    SelectSeq(stage_transitions, LAMBDA t : t.opportunity_id = opp_id)

\* rows is one chain from 'Lead', or with restarts several chains one after
\* the other: each row leaves the stage the row before it entered, on the
\* same or a later date, and none leaves a terminal stage
IsChain(rows, restarts) ==
    /\ rows # <<>> => rows[1].from_stage = "Lead"
    /\ \A k \in 2 .. Len(rows) :
          \/ /\ rows[k].from_stage = rows[k - 1].to_stage
             /\ rows[k].transition_date >= rows[k - 1].transition_date
             /\ rows[k - 1].to_stage \notin TerminalStages
          \/ /\ restarts
             /\ rows[k].from_stage = "Lead"

\* C26: the StageTransition rows of an opportunity, in the order written,
\* are one contiguous chain that starts at Lead, with dates that never
\* decrease, and no row follows one that enters Closed Won or Closed Lost.
\* (The rows of opportunities that share one opportunity_id are their chains
\* one after the other.)
C26_TransitionsFormOneChain ==
    /\ walk.state # "idle" => IsChain(walk.transitions, FALSE)
    /\ \A n \in DOMAIN opportunities :
          LET sharing == {m \in DOMAIN opportunities :
                             opportunities[m].opportunity_id
                             = opportunities[n].opportunity_id}
          IN  IsChain(TransitionsOf(opportunities[n].opportunity_id), sharing # {n})

\* An opportunity of its own id lost at SQL: Lead -> MQL -> SQL -> Closed Lost
C26_LostAtSql ==
    \E n \in DOMAIN opportunities :
        LET rows == TransitionsOf(opportunities[n].opportunity_id)
        IN  /\ \A m \in DOMAIN opportunities :
                  opportunities[m].opportunity_id = opportunities[n].opportunity_id
                  => m = n
            /\ Len(rows) = 3
            /\ rows[1].from_stage = "Lead"
            /\ rows[2].to_stage = "SQL"
            /\ rows[3].from_stage = "SQL"
            /\ rows[3].to_stage = "Closed Lost"
            /\ rows[3].transition_date > rows[2].transition_date

-----------------------------------------------------------------------------
(* The weekend reduction of usage *)

\* The customers an event can be of: they carry its customer_id and were
\* customers on its date
CustomersOfEvent(event) ==
    {c \in Range(customers) :
        /\ c.customer_id = event.customer_id
        /\ c.start_date <= event.event_date
        /\ event.event_date <= WindowEnd(c)}

\* C27: in every UsageEvent of a Saturday or Sunday each of the five
\* counters is 0.3 times the count the event was built with, rounded down,
\* whatever the customer's segment or churn state, and team_members_active
\* is still 1 or more.
C27_WeekendReducesAllCounters ==
    \A k \in DOMAIN usage_events :
        LET event == usage_events[k]
        IN  IsWeekend(event.event_date) =>
               /\ \E c \in CustomersOfEvent(event) :
                     \A key \in UsageCounters :
                        event[key] =
                            WeekendReduction(BuiltCounter(c, event.event_date, key))
               /\ event.team_members_active >= 1

\* An event of a Sunday with integrations_used as it was built, 1, and no
\* active team member
C27_SundayWithoutTeamMember ==
    \E k \in DOMAIN usage_events :
        LET event == usage_events[k]
        IN  /\ (StartWeekday + event.event_date) % 7 = 6
            /\ event.integrations_used = 1
            /\ event.team_members_active = 0
            /\ event.logins = 1
            /\ event.api_calls = 30

-----------------------------------------------------------------------------
(* The API process: analysis/revenue.py get_action_priority_matrix and
   api/main.py get_prioritized_actions *)

\* No generator has been built in the process
NoGenerator ==
    /\ pc = "idle"
    /\ i = 1
    /\ sales_reps = <<>>
    /\ leads = <<>>
    /\ opportunities = <<>>
    /\ stage_transitions = <<>>
    /\ customers = <<>>
    /\ usage_events = <<>>
    /\ marketing_spend = <<>>
    /\ mrr_movements = <<>>
    /\ nps_surveys = <<>>
    /\ expansion_opportunities = <<>>
    /\ walk = NoWalk
    /\ cur = None
    /\ assumptions = DEFAULT_ASSUMPTIONS
    /\ first_run = None
    /\ saves = 0

\* expected_impact of an action, in dollars
ImpactDraws == {0, 100, 200, 300}

\* What the three queries find: for each action no row to act on, or the
\* expected impact computed from the sum
QueryDraws ==
    [high_risk : {None} \cup {Some(v) : v \in ImpactDraws},
     conversion : {None} \cup {Some(v) : v \in ImpactDraws},
     expansion : {None} \cup {Some(v) : v \in ImpactDraws}]

\* actions.append({'priority': ..., 'category': ..., 'expected_arr_impact': ...})
AppendedActions(q) ==
    (IF q.high_risk # None
     THEN <<[priority |-> 1, category |-> "Retention",
             expected_arr_impact |-> q.high_risk[1]]>>
     ELSE <<>>)
    \o (IF q.conversion # None
        THEN <<[priority |-> 2, category |-> "Sales",
                expected_arr_impact |-> q.conversion[1]]>>
        ELSE <<>>)
    \o (IF q.expansion # None
        THEN <<[priority |-> 3, category |-> "Growth",
                expected_arr_impact |-> q.expansion[1]]>>
        ELSE <<>>)

\* An action put into a list sorted by falling impact, behind the actions
\* of the same impact
InsertByImpact(sorted, action) ==
    LET k == Cardinality({n \in DOMAIN sorted :
                 sorted[n].expected_arr_impact >= action.expected_arr_impact})
    IN  SubSeq(sorted, 1, k) \o <<action>> \o SubSeq(sorted, k + 1, Len(sorted))

\* sorted(actions, key=lambda x: x['expected_arr_impact'], reverse=True):
\* the sort is stable
RECURSIVE SortedByImpact(_)
SortedByImpact(actions) ==
    IF actions = <<>>
    THEN <<>>
    ELSE InsertByImpact(SortedByImpact(SubSeq(actions, 1, Len(actions) - 1)),
                        Last(actions))

\* The priorities the actions were appended with
KeepPriorities(actions) == actions

\* for i, action in enumerate(actions): action['priority'] = i + 1
ReassignPriorities(actions) ==
    [n \in DOMAIN actions |-> [actions[n] EXCEPT !.priority = n]]

get_action_priority_matrix(q) == ReassignPriorities(SortedByImpact(AppendedActions(q)))

\* actions[:5]
TopCount == 5

RECURSIVE SumImpact(_)
SumImpact(actions) ==
    IF actions = <<>>
    THEN 0
    ELSE Last(actions).expected_arr_impact
         + SumImpact(SubSeq(actions, 1, Len(actions) - 1))

\* GET /api/actions
get_prioritized_actions ==
    /\ queried # None
    /\ LET actions == get_action_priority_matrix(queried[1])
       IN  response' =
               Some([recommendations |->
                         SubSeq(actions, 1, Min2(TopCount, Len(actions))),
                     total_potential_impact |-> SumImpact(actions)])
    /\ UNCHANGED <<pc, i, sales_reps, leads, opportunities, stage_transitions,
                   customers, usage_events, marketing_spend, mrr_movements,
                   nps_surveys, expansion_opportunities, walk, cur, assumptions,
                   store, first_run, saves, app, cache, now, recency, last_call,
                   queried>>

InitActions ==
    /\ NoGenerator
    /\ store = EmptyStore
    /\ app = [phase |-> "serving"]
    /\ cache = <<>>
    /\ now = 0
    /\ recency = <<>>
    /\ last_call = NoCall
    /\ queried \in {Some(q) : q \in QueryDraws}
    /\ response = None

NextActions == get_prioritized_actions

SpecActions == InitActions /\ [][NextActions]_vars

\* C25: the response of the prioritized actions has at most 5
\* recommendations, none with a greater expected_arr_impact than the one
\* before it, and their priorities are 1, 2, ..., k in the order listed.
C25_TopActionsInPriorityOrder ==
    response # None =>
        LET recommendations == response[1].recommendations
        IN  /\ Len(recommendations) <= 5
            /\ \A n \in DOMAIN recommendations :
                  /\ recommendations[n].priority = n
                  /\ n > 1 => recommendations[n].expected_arr_impact
                              <= recommendations[n - 1].expected_arr_impact

\* All three actions recommended, the one appended second first and the
\* other two, of equal impact, in the order they were appended
C25_SalesActionFirst ==
    /\ response # None
    /\ Len(response[1].recommendations) = 3
    /\ response[1].recommendations[1].category = "Sales"
    /\ response[1].recommendations[2].category = "Retention"
    /\ response[1].recommendations[3].category = "Growth"
    /\ response[1].recommendations[2].expected_arr_impact
       = response[1].recommendations[3].expected_arr_impact
    /\ response[1].total_potential_impact = 500

-----------------------------------------------------------------------------
(* The API process: api/cache.py, SimpleCache and cached *)

\* SimpleCache(max_size=...)
max_size == 2

\* The seconds the clock is followed for
MaxTime == 2

\* key_prefix and the digest of the arguments: one key more than the cache
\* holds
CacheKeys == {<<"summary", 0>>} \cup {<<"actions", h>> : h \in 1 .. max_size}

\* pattern in k, for the patterns that are a key_prefix
Matches(pattern, key) == key[1] = pattern

PatternDraws == {"summary", "actions"}

\* A response to store
ResponseDraws == {Some("response")}

\* ttl of a set, in seconds
TtlDraws == {1}

KeysOf(c) == {c[n].key : n \in DOMAIN c}

EntryOf(c, key) == CHOOSE e \in Range(c) : e.key = key

\* An entry is kept for ever
NeverExpired(expiry, t) == FALSE

\* if time.time() > expiry
Expired(expiry, t) == t > expiry

\* del self.cache[key]
Delete(c, key) == SelectSeq(c, LAMBDA e : e.key # key)

\* The entry stays where it is
LeaveInPlace(c, key) == c

\* self.cache.move_to_end(key)
MoveToEnd(c, key) == Delete(c, key) \o <<EntryOf(c, key)>>

\* SimpleCache.get: the value returned and the cache it leaves
Get_(c, key, t) ==
    IF key \notin KeysOf(c)
    THEN [value |-> None, hit |-> FALSE, cache |-> c]
    ELSE IF Expired(EntryOf(c, key).expiry, t)
         THEN [value |-> None, hit |-> FALSE, cache |-> Delete(c, key)]
         ELSE [value |-> EntryOf(c, key).value, hit |-> TRUE,
               cache |-> MoveToEnd(c, key)]

\* SimpleCache.set
Set_(c, key, value, ttl, t) ==
    LET entry == [key |-> key, value |-> value, expiry |-> t + ttl]
        popped == IF Len(c) >= max_size /\ key \notin KeysOf(c)
                  THEN Tail(c)
                  ELSE c
        assigned == IF key \in KeysOf(popped)
                    THEN [n \in DOMAIN popped |->
                             IF popped[n].key = key THEN entry ELSE popped[n]]
                    ELSE Append(popped, entry)
    IN  MoveToEnd(assigned, key)

\* The keys in the order of their last use, for the keys still stored: a
\* key that was used is the most recent
RecencyAfter(c, used) ==
    LET others == SelectSeq(recency, LAMBDA k : k \in KeysOf(c) /\ <<k>> # used)
    IN  IF used # None /\ used[1] \in KeysOf(c)
        THEN Append(others, used[1])
        ELSE others

\* The entry a call found under its key
EntryBefore(key) ==
    IF key \in KeysOf(cache) THEN Some(EntryOf(cache, key)) ELSE None

ApiRest ==
    UNCHANGED <<pc, i, sales_reps, leads, opportunities, stage_transitions,
                customers, usage_events, marketing_spend, mrr_movements,
                nps_surveys, expansion_opportunities, walk, cur, assumptions,
                store, first_run, saves, app, queried, response>>

\* _cache.get(key)
CacheGet(keys) ==
    /\ \E key \in keys :
          LET got == Get_(cache, key, now)
          IN  /\ cache' = got.cache
              /\ recency' = RecencyAfter(got.cache, IF got.hit THEN Some(key) ELSE None)
              /\ last_call' = [op |-> "get", key |-> key, at |-> now,
                               before |-> EntryBefore(key), value |-> got.value]
    /\ UNCHANGED now
    /\ ApiRest

\* _cache.set(key, value, ttl)
CacheSet(keys, values, ttls) ==
    /\ \E key \in keys, value \in values, ttl \in ttls :
          LET c == Set_(cache, key, value, ttl, now)
          IN  /\ cache' = c
              /\ recency' = RecencyAfter(c, Some(key))
              /\ last_call' = [op |-> "set", key |-> key, at |-> now, ttl |-> ttl,
                               inserted |-> key \notin KeysOf(cache),
                               full |-> Len(cache) >= max_size,
                               lru |-> IF recency # <<>> THEN Some(Head(recency))
                                       ELSE None,
                               evicted |-> KeysOf(cache) \ KeysOf(c)]
    /\ UNCHANGED now
    /\ ApiRest

\* clear_cache()
CacheClear ==
    /\ cache' = <<>>
    /\ recency' = RecencyAfter(<<>>, None)
    /\ last_call' = [op |-> "clear"]
    /\ UNCHANGED now
    /\ ApiRest

\* invalidate_cache(pattern)
CacheInvalidatePattern ==
    /\ \E pattern \in PatternDraws :
          LET c == SelectSeq(cache, LAMBDA e : ~Matches(pattern, e.key))
          IN  /\ cache' = c
              /\ recency' = RecencyAfter(c, None)
              /\ last_call' = [op |-> "invalidate_pattern", pattern |-> pattern]
    /\ UNCHANGED now
    /\ ApiRest

\* A second passes; last_call is kept for the second it was made in
Tick ==
    /\ now < MaxTime
    /\ now' = now + 1
    /\ last_call' = NoCall
    /\ UNCHANGED <<cache, recency>>
    /\ ApiRest

InitCache ==
    /\ NoGenerator
    /\ store = EmptyStore
    /\ app = [phase |-> "serving"]
    /\ cache = <<>>
    /\ now = 0
    /\ recency = <<>>
    /\ last_call = NoCall
    /\ queried = None
    /\ response = None

NextCache ==
    \/ CacheGet(CacheKeys)
    \/ CacheSet(CacheKeys, ResponseDraws, TtlDraws)
    \/ CacheClear
    \/ CacheInvalidatePattern
    \/ Tick

SpecCache == InitCache /\ [][NextCache]_vars

\* C28: a SimpleCache never stores more than max_size entries, whatever
\* get, set, clear and invalidate_pattern calls are made, and a set that
\* inserts a new key into a full cache evicts one entry, the least recently
\* used one, where a set and a get that returns the stored value are uses;
\* no other set evicts.
C28_BoundedAndEvictsLeastRecentlyUsed ==
    /\ Len(cache) <= max_size
    /\ KeysOf(cache) = Range(recency)
    /\ last_call.op = "set" =>
          IF last_call.inserted /\ last_call.full
          THEN /\ last_call.lru # None
               /\ last_call.evicted = {last_call.lru[1]}
          ELSE last_call.evicted = {}

\* A set that found the cache full and evicted the least recently used
\* key, leaving an entry that was set a second or more before
C28_EvictedFromFullCache ==
    /\ last_call.op = "set"
    /\ last_call.inserted
    /\ last_call.full
    /\ last_call.lru # None
    /\ last_call.evicted = {last_call.lru[1]}
    /\ Len(cache) = max_size
    /\ cache[1].expiry < last_call.at + last_call.ttl
    /\ Last(cache).key = last_call.key

-----------------------------------------------------------------------------
(* The API process: the decorated functions of api/main.py *)

\* The keys of get_executive_summary and get_prioritized_actions, which take
\* no argument
EndpointKeys == {<<"summary", 0>>, <<"actions", 1>>}

\* CACHE_CONFIG[...]['ttl'] of the decorator of a key's function, on the
\* scale of the clock followed: the shorter (60) is 1, the longer (300) is 2
ConfigTtl(key) == IF key[1] = "summary" THEN 1 ELSE 2

\* What a decorated function returns, and what a set may be given
ResultDraws == {None, Some("response")}

\* ttl of a set, in seconds
EndpointTtlDraws == {1, 2}

\* The seconds the decorated function runs for
RunTimeDraws == {0, 1}

\* A call of a function decorated with cached.  Neither decorated function
\* of the application awaits, so no other call runs between the get and
\* the set.
CachedCall ==
    /\ \E key \in EndpointKeys :
          LET got == Get_(cache, key, now)
          IN  IF got.value # None
              THEN /\ cache' = got.cache
                   /\ recency' = RecencyAfter(got.cache, Some(key))
                   /\ last_call' = [op |-> "cached", key |-> key, at |-> now,
                                    before |-> EntryBefore(key), invoked |-> FALSE,
                                    value |-> got.value]
                   /\ UNCHANGED now
              ELSE \E result \in ResultDraws, seconds \in RunTimeDraws :
                      LET c == Set_(got.cache, key, result, ConfigTtl(key),
                                    now + seconds)
                      IN  /\ now + seconds <= MaxTime
                          /\ now' = now + seconds
                          /\ cache' = c
                          /\ recency' = RecencyAfter(c, Some(key))
                          /\ last_call' = [op |-> "cached", key |-> key, at |-> now,
                                           before |-> EntryBefore(key),
                                           invoked |-> TRUE, value |-> result]
    /\ ApiRest

NextCached ==
    \/ CachedCall
    \/ CacheGet(EndpointKeys)
    \/ CacheSet(EndpointKeys, ResultDraws, EndpointTtlDraws)
    \/ CacheClear
    \/ CacheInvalidatePattern
    \/ Tick

SpecCached == InitCache /\ [][NextCached]_vars

\* The entry a call found was still to be served at the time of the call
FoundFresh == last_call.before # None /\ last_call.at <= last_call.before[1].expiry

\* C29: an entry's expiry is the time of its set plus the ttl; get returns
\* the stored value only while the time is at most the expiry, and removes
\* an entry found later than that and returns None; a cached function is
\* invoked again by the first call after the expiry, and is not invoked by
\* a call that finds its entry, not None, within the TTL.
C29_NothingServedPastExpiry ==
    /\ last_call.op = "set" =>
          EntryOf(cache, last_call.key).expiry = last_call.at + last_call.ttl
    /\ last_call.op = "get" =>
          /\ last_call.value = (IF FoundFresh THEN last_call.before[1].value ELSE None)
          /\ (last_call.before # None /\ ~FoundFresh) =>
                last_call.key \notin KeysOf(cache)
    /\ last_call.op = "cached" =>
          /\ last_call.invoked <=> ~(FoundFresh /\ last_call.before[1].value # None)
          /\ ~last_call.invoked => last_call.value = last_call.before[1].value
          /\ last_call.invoked =>
                /\ EntryOf(cache, last_call.key).value = last_call.value
                /\ EntryOf(cache, last_call.key).expiry
                   = now + ConfigTtl(last_call.key)

\* A call that finds the response of an earlier one past its expiry and
\* invokes the function again
C29_InvokedAgainAfterExpiry ==
    /\ last_call.op = "cached"
    /\ last_call.before # None
    /\ last_call.before[1].value # None
    /\ last_call.at > last_call.before[1].expiry
    /\ last_call.invoked
    /\ last_call.value # None

-----------------------------------------------------------------------------
(* The API process: api/main.py lifespan *)

\* The database file has just been created: it has no table
NoTables == <<>>

\* SELECT COUNT(*) FROM information_schema.tables WHERE table_name = ...
table_exists(tables, table_name) == table_name \in DOMAIN tables

\* SELECT COUNT(*) of each table, and 0 where the query raises
get_database_stats(tables) ==
    [table \in Range(TableOrder) |->
        IF table \in DOMAIN tables THEN Len(tables[table]) ELSE 0]

\* Data is generated at every start
NoDataFoundEver(tables) == TRUE

\* if not table_exists('customers') or customer_count == 0
NoDataFound(tables) ==
    \/ ~table_exists(tables, "customers")
    \/ get_database_stats(tables)["customers"] = 0

\* The starts of the application that are followed
MaxStarts == 2

\* lifespan up to the call of generate_and_save or, with data found, to
\* the yield
LifespanStartup ==
    /\ app.phase \in {"down", "failed"}
    /\ app.starts < MaxStarts
    /\ IF NoDataFound(store)
       THEN /\ app' = [phase |-> "generating", starts |-> app.starts + 1,
                       tables |-> store, generated |-> TRUE]
            /\ pc' = "reps"
       ELSE /\ app' = [phase |-> "serving", starts |-> app.starts + 1,
                       tables |-> store, generated |-> FALSE]
            /\ pc' = "idle"
    /\ i' = 1
    /\ sales_reps' = <<>>
    /\ leads' = <<>>
    /\ opportunities' = <<>>
    /\ stage_transitions' = <<>>
    /\ customers' = <<>>
    /\ usage_events' = <<>>
    /\ marketing_spend' = <<>>
    /\ mrr_movements' = <<>>
    /\ nps_surveys' = <<>>
    /\ expansion_opportunities' = <<>>
    /\ walk' = NoWalk
    /\ cur' = None
    /\ UNCHANGED <<assumptions, store, first_run, saves, cache, now, recency,
                   last_call, queried, response>>

\* generate_and_save returned: lifespan yields and the application serves
LifespanYields ==
    /\ app.phase = "generating"
    /\ pc = "saved"
    /\ app' = [app EXCEPT !.phase = "serving"]
    /\ UNCHANGED <<pc, i, sales_reps, leads, opportunities, stage_transitions,
                   customers, usage_events, marketing_spend, mrr_movements,
                   nps_surveys, expansion_opportunities, walk, cur, assumptions,
                   store, first_run, saves, cache, now, recency, last_call,
                   queried, response>>

\* generate_and_save raised: so does lifespan, and the application does
\* not start
LifespanRaises ==
    /\ app.phase = "generating"
    /\ pc = "save_failed"
    /\ app' = [app EXCEPT !.phase = "failed"]
    /\ UNCHANGED <<pc, i, sales_reps, leads, opportunities, stage_transitions,
                   customers, usage_events, marketing_spend, mrr_movements,
                   nps_surveys, expansion_opportunities, walk, cur, assumptions,
                   store, first_run, saves, cache, now, recency, last_call,
                   queried, response>>

\* The application is shut down: the database file stays
Shutdown ==
    /\ app.phase = "serving"
    /\ app' = [app EXCEPT !.phase = "down"]
    /\ UNCHANGED <<pc, i, sales_reps, leads, opportunities, stage_transitions,
                   customers, usage_events, marketing_spend, mrr_movements,
                   nps_surveys, expansion_opportunities, walk, cur, assumptions,
                   store, first_run, saves, cache, now, recency, last_call,
                   queried, response>>

InitStartup ==
    /\ NoGenerator
    /\ store = NoTables
    /\ app = [phase |-> "down", starts |-> 0, tables |-> NoTables,
              generated |-> FALSE]
    /\ cache = <<>>
    /\ now = 0
    /\ recency = <<>>
    /\ last_call = NoCall
    /\ queried = None
    /\ response = None

NextStartup ==
    \/ LifespanStartup
    \/ NextSave
    \/ LifespanYields
    \/ LifespanRaises
    \/ Shutdown

SpecStartup == InitStartup /\ [][NextStartup]_vars

\* C30: a start of the application generates and saves data exactly when it
\* finds no customers table or one without a row; a start that finds rows in
\* it drops nothing, generates nothing and writes nothing, so that the ten
\* tables stay as it found them.
C30_GeneratesOnlyWithoutCustomers ==
    app.phase \in {"generating", "serving", "failed"} =>
        /\ app.generated <=>
              \/ "customers" \notin DOMAIN app.tables
              \/ app.tables["customers"] = <<>>
        /\ ~app.generated =>
              /\ store = app.tables
              /\ DOMAIN store = Range(TableOrder)
              /\ pc = "idle"
              /\ Collections = [table \in Range(TableOrder) |-> <<>>]
        /\ (app.generated /\ app.phase = "serving") =>
              \A table \in Range(TableOrder) : store[table] = DataOf(table)

\* A second start that found a customer of the first start's data and
\* serves it as it is
C30_ServesWhatItFound ==
    /\ app.phase = "serving"
    /\ app.starts = 2
    /\ ~app.generated
    /\ store["customers"] # <<>>
    /\ store = app.tables
    /\ customers = <<>>

=============================================================================
